---- MODULE Spec2Model ----
(***************************************************************************)
(* Verification model of the hypervisor control plane                      *)
(* (kernel-hypervisor-backup/src/hypervisor).                               *)
(*                                                                         *)
(*   SpecVm   : one Vm (vm.rs) with its region list and its architecture   *)
(*              backend ArchVmData (arch/x86_64/mod.rs).                   *)
(*   SpecVcpu : one Vcpu (vcpu.rs) with its backend ArchVcpuData.          *)
(*   SpecVmLife : the lifecycle side of a Vm: state and VCPU id list.       *)
(*   SpecInit : threads calling the global init() (mod.rs).                *)
(*   SpecIds  : the id counters and the mode instances that use them.      *)
(*   SpecMapper : one EptMapper or NptMapper (arch/x86_64/ept.rs, npt.rs)  *)
(*              with the frame allocator it draws its table frames from.   *)
(*   SpecEcb  : the execution control block handles, VmcsHandle            *)
(*              (arch/x86_64/vmcs.rs) or VmcbHandle (arch/x86_64/vmcb.rs), *)
(*              with the processor state their instructions act on.        *)
(*   SpecMode : one mode instance (modes/type1, modes/virtio, modes/hvt)  *)
(*              with every operation of HypervisorModeImpl.                *)
(*   SpecModeName : HypervisorMode::name and from_str (mode.rs) applied to *)
(*              strings, which the model writes as sequences of characters.*)
(*                                                                         *)
(* Guest addresses are u64 in the source.  The model keeps the word but    *)
(* narrows it to AddrBits bits, so that gpa + size can leave the word as   *)
(* it can in the source.  Addresses and sizes are counted in 4 KiB pages.  *)
(* `+` on u64 panics in a build with overflow checks and wraps in a build  *)
(* without; the build is fixed in the initial state.  After a panic no     *)
(* further call runs.                                                      *)
(*                                                                         *)
(* Every call records what it returned (vm_result, vcpu_result) and the    *)
(* steps it took (vm_log, vcpu_log), so that a claim can speak about the   *)
(* outcome and the order of the steps of the last call.                    *)
(***************************************************************************)
EXTENDS Integers, Sequences, FiniteSets, TLC

\* ------------------------------------------------------------------ bounds
\* Width of the address word (u64 in the source).
AddrBits == 1
\* Largest region size offered to map_memory / unmap_memory.
MaxSize == 1
\* Longest region list the model lets map_memory build.
MaxRegions == 2

AddrLimit == 2 ^ AddrBits
Addrs == 0 .. (AddrLimit - 1)
Sizes == 0 .. MaxSize
\* Host frames handed out by the frame allocator (opaque to vm.rs).
Hpas == {0, 1}

VARIABLES
    memory_regions,   \* Vm::memory_regions : Vec<MemoryRegion>
    arch_data,        \* Vm::arch_data : ArchVmData
    overflow_checks,  \* build profile: TRUE when `+` panics on overflow
    vm_op,            \* the last Vm call: "none", "map_memory", "unmap_memory"
    vm_result,        \* what that call returned
    vm_log            \* the steps that call performed, in order

vm_vars == <<memory_regions, arch_data, overflow_checks, vm_op, vm_result, vm_log>>

VARIABLES
    vcpu_state,      \* Vcpu::state (AtomicU8)
    regs,            \* Vcpu::regs
    last_exit,       \* Vcpu::last_exit
    vcpu_arch_data,  \* Vcpu::arch_data : ArchVcpuData
    vcpu_pc,         \* where the owning thread stands inside run() / resume()
    exit_reason,     \* the local `exit_reason` of run() / resume()
    vcpu_op,         \* the current or last Vcpu call
    vcpu_result,     \* what the last completed call returned
    vcpu_log         \* the steps of the current or last run() / resume(), in order

vcpu_vars == <<vcpu_state, regs, last_exit, vcpu_arch_data, vcpu_pc, exit_reason,
               vcpu_op, vcpu_result, vcpu_log>>

VARIABLES
    vm_state,     \* Vm::state (AtomicU8)
    vcpu_ids,     \* Vm::vcpu_ids : Vec<u64>
    num_vcpus,    \* Vm::config.num_vcpus
    life_op,      \* the last call on the Vm's lifecycle side
    life_result   \* what that call returned

life_vars == <<vm_state, vcpu_ids, num_vcpus, life_op, life_result>>

VARIABLES
    HYPERVISOR_INITIALIZED,  \* the global AtomicBool of mod.rs
    cpu,                     \* what CPUID reports: [vmx, svm]
    firmware_ok,             \* the firmware leaves the technology enabled
    init_pc,                 \* per caller: where it stands inside init()
    init_result,             \* per caller: what its last init() returned
    init_ok_seen             \* some init() has returned Ok(caps)

init_vars == <<HYPERVISOR_INITIALIZED, cpu, firmware_ok, init_pc, init_result,
               init_ok_seen>>

VARIABLES
    VM_COUNTER,     \* the global AtomicU64 of vm.rs
    VCPU_COUNTER,   \* the global AtomicU64 of vcpu.rs
    vms,            \* per mode instance: its list of VM ids
    vm_ids_out,     \* every value allocate_vm_id has returned, in order
    vcpu_ids_out,   \* every value allocate_vcpu_id has returned, in order
    vms_destroyed,  \* the ids destroy_vm has taken out of a list
    id_op           \* the last mode call

id_vars == <<VM_COUNTER, VCPU_COUNTER, vms, vm_ids_out, vcpu_ids_out, vms_destroyed,
             id_op>>

VARIABLES
    backend,       \* which mapper is under test: "Ept" (ept.rs) or "Npt" (npt.rs)
    pml4_addr,     \* EptMapper::pml4_addr / NptMapper::pml4_addr
    tables,        \* the table frames: tables[f] is the table in frame f
    free_frames,   \* frames memory::allocate_frame can still hand out
    mapped_now,    \* guest pages given to a map that returned Ok and not unmapped since
    mapper_op,     \* the last step: "map", "unmap", "drop", or "allocator" for other users
    mapper_args,   \* its arguments: guest page, host page and flags
    mapper_result, \* what that call returned
    mapper_allocs  \* the frames that call took from the allocator

mapper_vars == <<backend, pml4_addr, tables, free_frames, mapped_now, mapper_op,
                 mapper_args, mapper_result, mapper_allocs>>

VARIABLES
    ecb_tech,      \* which handle is under test: "Vmx" (vmcs.rs) or "Svm" (vmcb.rs)
    ecb_hw,        \* what the processor refuses: [clear_fails, load_fails, bad_field]
    ecb_handle,    \* per handle: "none", "live" or "dropped"
    ecb_frame,     \* per handle: VmcsHandle::phys_addr / VmcbHandle::phys_addr as a frame
    ecb_content,   \* per handle: the fields of the block in its frame
    ecb_free,      \* the frames memory::allocate_frame can hand out
    ecb_deallocs,  \* per handle: how often its frame went to deallocate_frame
    current_vmcs,  \* the handle whose VMCS is current on the processor, 0 for none
    ecb_op,        \* the last call: [name, h]
    ecb_result,    \* what it returned: [kind, value]
    ecb_log        \* the instructions it issued, in order

ecb_vars == <<ecb_tech, ecb_hw, ecb_handle, ecb_frame, ecb_content, ecb_free,
              ecb_deallocs, current_vmcs, ecb_op, ecb_result, ecb_log>>

VARIABLES
    inst_mode,    \* which implementation the instance is: "Type1", "VirtIO" or "Hvt"
    inst_config,  \* VmConfig::num_vcpus of the configurations given to create_vm
    inst_vms,     \* Type1Hypervisor::vms / VirtIOHypervisor::vms / HvtTender::unikernels
    inst_live,    \* the ids its create_vm returned and no destroy_vm was given since
    inst_vcpus,   \* per VM id: the create_vcpu calls for it that returned Ok
    inst_op,      \* the last call: [name, vm_id, vcpu_id], -1 for an argument it lacks
    inst_result   \* what it returned

inst_vars == <<inst_mode, inst_config, inst_vms, inst_live, inst_vcpus, inst_op, inst_result>>

VARIABLES
    mode_str,     \* the string at hand: a caller's, or one that name() returned
    mode_src,     \* where it came from: "caller", or the mode name() was called on
    mode_parsed   \* what from_str returned for it, NotCalled before the call

name_vars == <<mode_str, mode_src, mode_parsed>>

\* What each component leaves alone: the variables of the others.
NotVm == <<vcpu_vars, life_vars, init_vars, id_vars, mapper_vars,
           ecb_vars, inst_vars, name_vars>>
NotVcpu == <<vm_vars, life_vars, init_vars, id_vars, mapper_vars,
             ecb_vars, inst_vars, name_vars>>
NotLife == <<vm_vars, vcpu_vars, init_vars, id_vars, mapper_vars,
             ecb_vars, inst_vars, name_vars>>
NotInit == <<vm_vars, vcpu_vars, life_vars, id_vars, mapper_vars,
             ecb_vars, inst_vars, name_vars>>
NotIds == <<vm_vars, vcpu_vars, life_vars, init_vars, mapper_vars,
            ecb_vars, inst_vars, name_vars>>
NotMapper == <<vm_vars, vcpu_vars, life_vars, init_vars, id_vars,
               ecb_vars, inst_vars, name_vars>>
NotEcb == <<vm_vars, vcpu_vars, life_vars, init_vars, id_vars,
            mapper_vars, inst_vars, name_vars>>
\* A mode instance draws its ids from the two global counters of id_vars.
NotInst == <<vm_vars, vcpu_vars, life_vars, init_vars, mapper_vars,
             ecb_vars, name_vars>>
NotModeName == <<vm_vars, vcpu_vars, life_vars, init_vars, id_vars,
                 mapper_vars, ecb_vars, inst_vars>>

vars == <<vm_vars, vcpu_vars, life_vars, init_vars, id_vars, mapper_vars, ecb_vars,
         inst_vars, name_vars>>

\* ------------------------------------------------------------------ vm.rs
MemoryRegion == [gpa : Addrs, hpa : Hpas, size : Sizes]

\* u64 `+` in a build without overflow checks.
wrapping_add(x, y) == (x + y) % AddrLimit

\* u64 `+` leaves the word.
add_overflows(x, y) == x + y >= AddrLimit

\* fn regions_overlap
regions_overlap(a, b) ==
    LET a_end == wrapping_add(a.gpa, a.size)
        b_end == wrapping_add(b.gpa, b.size)
    IN  (a.gpa < b_end) /\ (b.gpa < a_end)

\* The loop of map_memory over the recorded regions, from index i on:
\* "Overlap" at the first region that overlaps, "Panic" when an end address
\* leaves the word in a build with overflow checks, "None" at the end.
RECURSIVE overlap_scan(_, _, _, _)
overlap_scan(list, region, i, checks) ==
    IF i > Len(list) THEN "None"
    ELSE IF checks /\ (add_overflows(list[i].gpa, list[i].size)
                       \/ add_overflows(region.gpa, region.size))
         THEN "Panic"
    ELSE IF regions_overlap(list[i], region) THEN "Overlap"
    ELSE overlap_scan(list, region, i + 1, checks)

\* Iterator::position: the first index that matches, 0 for None.
RECURSIVE position_from(_, _, _, _)
position_from(list, gpa, size, i) ==
    IF i > Len(list) THEN 0
    ELSE IF list[i].gpa = gpa /\ list[i].size = size THEN i
    ELSE position_from(list, gpa, size, i + 1)

\* A position that compares the guest address only.
position_gpa_only(list, gpa, size) ==
    LET hits == {i \in 1 .. Len(list) : list[i].gpa = gpa}
    IN  IF hits = {} THEN 0 ELSE CHOOSE i \in hits : \A j \in hits : i <= j

position(list, gpa, size) == position_from(list, gpa, size, 1)

\* Vec::remove(idx)
remove(list, idx) ==
    [j \in 1 .. (Len(list) - 1) |-> IF j < idx THEN list[j] ELSE list[j + 1]]

\* ------------------------------------------------- arch/x86_64/mod.rs
VirtTech == {"Vmx", "Svm"}

\* ArchVmData::new: the detected technology and a root that is never allocated.
ArchVmData_new(tech) == [virt_tech |-> tech, page_table_root |-> 0]

\* ArchVmData::map_memory: logs and returns Ok(()); no table is written.
ArchVmData_map_memory(arch, region) == [result |-> "Ok", arch |-> arch]

\* ArchVmData::unmap_memory: logs and returns Ok(()); no table is written.
ArchVmData_unmap_memory(arch, region) == [result |-> "Ok", arch |-> arch]

\* The second-level translation reachable from ArchVmData: the structure holds
\* a root address only, 0 for "no table", so no guest page translates.
NestedTranslation(arch, gpage) == [mapped |-> FALSE, hpa |-> arch.page_table_root]

\* ------------------------------------------------------------- Vm actions
\* Vm::new
Vm_new ==
    /\ memory_regions = <<>>
    /\ arch_data \in {ArchVmData_new(t) : t \in VirtTech}
    /\ overflow_checks \in BOOLEAN
    /\ vm_op = "none"
    /\ vm_result = "None"
    /\ vm_log = <<>>

\* A map_memory that records the region before it scans for an overlap.
Vm_map_memory_push_first(region) ==
    /\ vm_result # "Panic"
    /\ Len(memory_regions) < MaxRegions
    /\ LET scan == overlap_scan(memory_regions, region, 1, overflow_checks)
       IN  /\ vm_op' = "map_memory"
           /\ memory_regions' = Append(memory_regions, region)
           /\ arch_data' = arch_data
           /\ vm_result' = IF scan = "None" THEN "Ok"
                           ELSE IF scan = "Panic" THEN "Panic"
                           ELSE "InvalidMemoryRegion"
           /\ vm_log' = IF scan = "None"
                        THEN <<"push", "overlap_check", "arch_map">>
                        ELSE <<"push", "overlap_check">>
           /\ UNCHANGED <<overflow_checks, NotVm>>

Vm_map_memory(region) ==
    /\ vm_result # "Panic"
    /\ LET scan == overlap_scan(memory_regions, region, 1, overflow_checks)
       IN  /\ ~(scan = "None" /\ Len(memory_regions) >= MaxRegions)
           /\ vm_op' = "map_memory"
           /\ IF scan = "Panic"
              THEN /\ vm_result' = "Panic"
                   /\ vm_log' = <<"overlap_check">>
                   /\ UNCHANGED <<memory_regions, arch_data>>
              ELSE IF scan = "Overlap"
              THEN /\ vm_result' = "InvalidMemoryRegion"
                   /\ vm_log' = <<"overlap_check">>
                   /\ UNCHANGED <<memory_regions, arch_data>>
              ELSE LET b == ArchVmData_map_memory(arch_data, region)
                   IN  IF b.result = "Ok"
                       THEN /\ arch_data' = b.arch
                            /\ memory_regions' = Append(memory_regions, region)
                            /\ vm_result' = "Ok"
                            /\ vm_log' = <<"overlap_check", "arch_map", "push">>
                       ELSE /\ arch_data' = b.arch
                            /\ vm_result' = b.result
                            /\ vm_log' = <<"overlap_check", "arch_map">>
                            /\ UNCHANGED memory_regions
           /\ UNCHANGED <<overflow_checks, NotVm>>

Vm_unmap_memory(gpa, size) ==
    /\ vm_result # "Panic"
    /\ vm_op' = "unmap_memory"
    /\ LET idx == position(memory_regions, gpa, size)
       IN  IF idx = 0
           THEN /\ vm_result' = "InvalidMemoryRegion"
                /\ vm_log' = <<"position">>
                /\ UNCHANGED <<memory_regions, arch_data>>
           ELSE LET region == memory_regions[idx]
                    b == ArchVmData_unmap_memory(arch_data, region)
                IN  /\ memory_regions' = remove(memory_regions, idx)
                    /\ arch_data' = b.arch
                    /\ vm_result' = b.result
                    /\ vm_log' = <<"position", "remove", "arch_unmap">>
    /\ UNCHANGED <<overflow_checks, NotVm>>

VmMap == \E region \in MemoryRegion : Vm_map_memory(region)

VmUnmap == \E gpa \in Addrs, size \in Sizes : Vm_unmap_memory(gpa, size)

VmNext == VmMap \/ VmUnmap

\* No Vcpu is under test: its variables rest at one value.
VcpuAbsent ==
    /\ vcpu_state = "Stopped"
    /\ regs = 0
    /\ last_exit = "Unknown"
    /\ vcpu_arch_data = <<>>
    /\ vcpu_pc = "absent"
    /\ exit_reason = "NoExit"
    /\ vcpu_op = "none"
    /\ vcpu_result = <<>>
    /\ vcpu_log = <<>>

\* The lifecycle side of the Vm is not under test.
LifeAbsent ==
    /\ vm_state = "Creating"
    /\ vcpu_ids = <<>>
    /\ num_vcpus = 0
    /\ life_op = "absent"
    /\ life_result = "None"

\* No caller of init() is under test.
InitAbsent ==
    /\ HYPERVISOR_INITIALIZED = FALSE
    /\ cpu = <<>>
    /\ firmware_ok = FALSE
    /\ init_pc = <<>>
    /\ init_result = <<>>
    /\ init_ok_seen = FALSE

\* No mode instance is under test.
IdsAbsent ==
    /\ VM_COUNTER = 0
    /\ VCPU_COUNTER = 0
    /\ vms = <<>>
    /\ vm_ids_out = <<>>
    /\ vcpu_ids_out = <<>>
    /\ vms_destroyed = {}
    /\ id_op = "absent"

\* No mapper is under test.
MapperAbsent ==
    /\ backend = "none"
    /\ pml4_addr = 0
    /\ tables = <<>>
    /\ free_frames = 0
    /\ mapped_now = {}
    /\ mapper_op = "absent"
    /\ mapper_args = <<>>
    /\ mapper_result = "None"
    /\ mapper_allocs = 0

\* No execution control block is under test.
EcbAbsent ==
    /\ ecb_tech = "none"
    /\ ecb_hw = <<>>
    /\ ecb_handle = <<>>
    /\ ecb_frame = <<>>
    /\ ecb_content = <<>>
    /\ ecb_free = {}
    /\ ecb_deallocs = <<>>
    /\ current_vmcs = 0
    /\ ecb_op = <<>>
    /\ ecb_result = <<>>
    /\ ecb_log = <<>>

\* No single mode instance is under test.
InstAbsent ==
    /\ inst_mode = "none"
    /\ inst_config = 0
    /\ inst_vms = <<>>
    /\ inst_live = {}
    /\ inst_vcpus = <<>>
    /\ inst_op = <<>>
    /\ inst_result = "None"

\* from_str has not been called on the string at hand.
NotCalled == [some |-> FALSE, mode |-> "not called"]

\* No mode name is under test.
ModeNameAbsent ==
    /\ mode_str = <<>>
    /\ mode_src = "absent"
    /\ mode_parsed = NotCalled

VmInit ==
    Vm_new /\ VcpuAbsent /\ LifeAbsent /\ InitAbsent /\ IdsAbsent /\ MapperAbsent /\ EcbAbsent
    /\ InstAbsent /\ ModeNameAbsent

SpecVm == VmInit /\ [][VmNext]_vars

\* ================================================================ vcpu.rs
\* Largest value of the register snapshot (VcpuRegs, abstracted to one number;
\* 0 is VcpuRegs::default()).
MaxReg == 2

VcpuRegs == 0 .. MaxReg
VcpuRegs_default == 0
VcpuState == {"Stopped", "Running", "Waiting", "Exited"}

\* Result values.
Ok(exit) == [kind |-> "Ok", exit |-> exit, code |-> 0]
ArchError(code) == [kind |-> "ArchError", exit |-> "NoExit", code |-> code]
OkUnit == [kind |-> "Ok", exit |-> "NoExit", code |-> 0]
NoResult == [kind |-> "None", exit |-> "NoExit", code |-> 0]

\* ------------------------------------------------- arch/x86_64/mod.rs
\* ArchVcpuData::new
ArchVcpuData_new(vm_id, tech) ==
    [vm_id |-> vm_id, virt_tech |-> tech, control_structure |-> 0]

\* ArchVcpuData::get_regs: Ok(VcpuRegs::default()).
ArchVcpuData_get_regs(arch) == [result |-> OkUnit, regs |-> VcpuRegs_default]

\* ArchVcpuData::set_regs: Ok(()), nothing is stored.
ArchVcpuData_set_regs(arch, r) == [result |-> OkUnit, arch |-> arch]

\* ArchVcpuData::run: Ok(VcpuExit::Unknown).
ArchVcpuData_run(arch) == [result |-> OkUnit, exit |-> "Unknown", arch |-> arch]

\* ----------------------------------------------------------- Vcpu actions
\* Vcpu::new
Vcpu_new ==
    /\ vcpu_state = "Stopped"
    /\ regs \in VcpuRegs
    /\ last_exit = "Unknown"
    /\ vcpu_arch_data \in {ArchVcpuData_new(0, t) : t \in VirtTech}
    /\ vcpu_pc = "idle"
    /\ exit_reason = "NoExit"
    /\ vcpu_op = "none"
    /\ vcpu_result = NoResult
    /\ vcpu_log = <<>>

\* A run() that refuses only a VCPU that is Running.
Vcpu_run_unless_running ==
    /\ vcpu_pc = "idle"
    /\ vcpu_op' = "run"
    /\ vcpu_log' = <<>>
    /\ IF vcpu_state = "Running"
       THEN /\ vcpu_result' = ArchError(0)
            /\ UNCHANGED <<vcpu_state, vcpu_pc>>
       ELSE /\ vcpu_state' = "Running"
            /\ vcpu_pc' = "set_regs"
            /\ vcpu_result' = NoResult
    /\ UNCHANGED <<regs, last_exit, vcpu_arch_data, exit_reason>>
    /\ UNCHANGED NotVcpu

\* Vcpu::run, up to set_state(Running): the state test opens the call.
Vcpu_run ==
    /\ vcpu_pc = "idle"
    /\ vcpu_op' = "run"
    /\ vcpu_log' = <<>>
    /\ IF vcpu_state # "Stopped"
       THEN /\ vcpu_result' = ArchError(0)
            /\ UNCHANGED <<vcpu_state, vcpu_pc>>
       ELSE /\ vcpu_state' = "Running"
            /\ vcpu_pc' = "set_regs"
            /\ vcpu_result' = NoResult
    /\ UNCHANGED <<regs, last_exit, vcpu_arch_data, exit_reason>>
    /\ UNCHANGED NotVcpu

\* A resume() that refuses only a VCPU that is Running.
Vcpu_resume_unless_running ==
    /\ vcpu_pc = "idle"
    /\ vcpu_op' = "resume"
    /\ vcpu_log' = <<>>
    /\ IF vcpu_state = "Running"
       THEN /\ vcpu_result' = ArchError(1)
            /\ UNCHANGED <<vcpu_state, vcpu_pc>>
       ELSE /\ vcpu_state' = "Running"
            /\ vcpu_pc' = "set_regs"
            /\ vcpu_result' = NoResult
    /\ UNCHANGED <<regs, last_exit, vcpu_arch_data, exit_reason>>
    /\ UNCHANGED NotVcpu

\* A resume() whose rejection carries the code of run().
Vcpu_resume_code_of_run ==
    /\ vcpu_pc = "idle"
    /\ vcpu_op' = "resume"
    /\ vcpu_log' = <<>>
    /\ IF vcpu_state # "Exited"
       THEN /\ vcpu_result' = ArchError(0)
            /\ UNCHANGED <<vcpu_state, vcpu_pc>>
       ELSE /\ vcpu_state' = "Running"
            /\ vcpu_pc' = "set_regs"
            /\ vcpu_result' = NoResult
    /\ UNCHANGED <<regs, last_exit, vcpu_arch_data, exit_reason>>
    /\ UNCHANGED NotVcpu

\* Vcpu::resume, up to set_state(Running).
Vcpu_resume ==
    /\ vcpu_pc = "idle"
    /\ vcpu_op' = "resume"
    /\ vcpu_log' = <<>>
    /\ IF vcpu_state # "Exited"
       THEN /\ vcpu_result' = ArchError(1)
            /\ UNCHANGED <<vcpu_state, vcpu_pc>>
       ELSE /\ vcpu_state' = "Running"
            /\ vcpu_pc' = "set_regs"
            /\ vcpu_result' = NoResult
    /\ UNCHANGED <<regs, last_exit, vcpu_arch_data, exit_reason>>
    /\ UNCHANGED NotVcpu

\* self.arch_data.set_regs(&self.regs)?
Vcpu_sync_to_arch ==
    /\ vcpu_pc = "set_regs"
    /\ LET b == ArchVcpuData_set_regs(vcpu_arch_data, regs)
       IN  IF b.result.kind = "Ok"
           THEN /\ vcpu_arch_data' = b.arch
                /\ vcpu_pc' = "enter"
                /\ vcpu_log' = Append(vcpu_log, "set_regs")
                /\ UNCHANGED vcpu_result
           ELSE /\ vcpu_pc' = "idle"
                /\ vcpu_result' = b.result
                /\ UNCHANGED <<vcpu_arch_data, vcpu_log>>
    /\ UNCHANGED <<vcpu_state, regs, last_exit, exit_reason, vcpu_op>>
    /\ UNCHANGED NotVcpu

\* let exit_reason = self.arch_data.run()?
Vcpu_enter_guest ==
    /\ vcpu_pc = "enter"
    /\ LET b == ArchVcpuData_run(vcpu_arch_data)
       IN  IF b.result.kind = "Ok"
           THEN /\ vcpu_arch_data' = b.arch
                /\ exit_reason' = b.exit
                /\ vcpu_pc' = "get_regs"
                /\ vcpu_log' = Append(vcpu_log, "enter")
                /\ UNCHANGED vcpu_result
           ELSE /\ vcpu_pc' = "idle"
                /\ vcpu_result' = b.result
                /\ UNCHANGED <<vcpu_arch_data, exit_reason, vcpu_log>>
    /\ UNCHANGED <<vcpu_state, regs, last_exit, vcpu_op>>
    /\ UNCHANGED NotVcpu

\* A get_regs step that drops the snapshot it pulled.
Vcpu_sync_from_arch_keep ==
    /\ vcpu_pc = "get_regs"
    /\ vcpu_pc' = "record"
    /\ vcpu_log' = Append(vcpu_log, "get_regs")
    /\ UNCHANGED <<vcpu_state, regs, last_exit, vcpu_arch_data, exit_reason, vcpu_op,
                   vcpu_result>>
    /\ UNCHANGED NotVcpu

\* self.regs = self.arch_data.get_regs()?
Vcpu_sync_from_arch ==
    /\ vcpu_pc = "get_regs"
    /\ LET b == ArchVcpuData_get_regs(vcpu_arch_data)
       IN  IF b.result.kind = "Ok"
           THEN /\ regs' = b.regs
                /\ vcpu_pc' = "record"
                /\ vcpu_log' = Append(vcpu_log, "get_regs")
                /\ UNCHANGED vcpu_result
           ELSE /\ vcpu_pc' = "idle"
                /\ vcpu_result' = b.result
                /\ UNCHANGED <<regs, vcpu_log>>
    /\ UNCHANGED <<vcpu_state, last_exit, vcpu_arch_data, exit_reason, vcpu_op>>
    /\ UNCHANGED NotVcpu

\* A recording step that publishes Exited before last_exit is written.
Vcpu_record_exit_state_first ==
    /\ vcpu_pc = "record"
    /\ vcpu_state' = "Exited"
    /\ vcpu_pc' = "set_exited"
    /\ vcpu_log' = Append(vcpu_log, "last_exit")
    /\ UNCHANGED <<last_exit, regs, vcpu_arch_data, exit_reason, vcpu_op, vcpu_result>>
    /\ UNCHANGED NotVcpu

\* self.last_exit = exit_reason
Vcpu_record_exit ==
    /\ vcpu_pc = "record"
    /\ last_exit' = exit_reason
    /\ vcpu_pc' = "set_exited"
    /\ vcpu_log' = Append(vcpu_log, "last_exit")
    /\ UNCHANGED <<vcpu_state, regs, vcpu_arch_data, exit_reason, vcpu_op, vcpu_result>>
    /\ UNCHANGED NotVcpu

\* self.set_state(VcpuState::Exited); Ok(exit_reason)
Vcpu_set_exited ==
    /\ vcpu_pc = "set_exited"
    /\ vcpu_state' = "Exited"
    /\ vcpu_result' = Ok(exit_reason)
    /\ vcpu_pc' = "idle"
    /\ vcpu_log' = Append(vcpu_log, "Exited")
    /\ UNCHANGED <<regs, last_exit, vcpu_arch_data, exit_reason, vcpu_op>>
    /\ UNCHANGED NotVcpu

\* A stop() that also puts the register snapshot back to its default.
Vcpu_stop_resets_regs ==
    /\ vcpu_pc = "idle"
    /\ vcpu_state' = "Stopped"
    /\ regs' = VcpuRegs_default
    /\ vcpu_op' = "stop"
    /\ vcpu_result' = OkUnit
    /\ UNCHANGED <<last_exit, vcpu_arch_data, vcpu_pc, exit_reason, vcpu_log>>
    /\ UNCHANGED NotVcpu

\* Vcpu::stop
Vcpu_stop ==
    /\ vcpu_pc = "idle"
    /\ vcpu_state' = "Stopped"
    /\ vcpu_op' = "stop"
    /\ vcpu_result' = OkUnit
    /\ UNCHANGED <<regs, last_exit, vcpu_arch_data, vcpu_pc, exit_reason, vcpu_log>>
    /\ UNCHANGED NotVcpu

\* Vcpu::set_regs
Vcpu_set_regs(r) ==
    /\ vcpu_pc = "idle"
    /\ regs' = r
    /\ vcpu_op' = "set_regs"
    /\ vcpu_result' = OkUnit
    /\ UNCHANGED <<vcpu_state, last_exit, vcpu_arch_data, vcpu_pc, exit_reason, vcpu_log>>
    /\ UNCHANGED NotVcpu

\* Vcpu::set_state
Vcpu_set_state(st) ==
    /\ vcpu_pc = "idle"
    /\ vcpu_state' = st
    /\ vcpu_op' = "set_state"
    /\ vcpu_result' = OkUnit
    /\ UNCHANGED <<regs, last_exit, vcpu_arch_data, vcpu_pc, exit_reason, vcpu_log>>
    /\ UNCHANGED NotVcpu

VcpuSetRegs == \E r \in VcpuRegs : Vcpu_set_regs(r)

VcpuSetState == \E st \in VcpuState : Vcpu_set_state(st)

VcpuNext ==
    \/ Vcpu_run
    \/ Vcpu_resume
    \/ Vcpu_sync_to_arch
    \/ Vcpu_enter_guest
    \/ Vcpu_sync_from_arch
    \/ Vcpu_record_exit
    \/ Vcpu_set_exited
    \/ Vcpu_stop
    \/ VcpuSetRegs
    \/ VcpuSetState

\* No Vm is under test: its variables rest at one value.
VmAbsent ==
    /\ memory_regions = <<>>
    /\ arch_data = <<>>
    /\ overflow_checks = FALSE
    /\ vm_op = "absent"
    /\ vm_result = "None"
    /\ vm_log = <<>>

VcpuInit ==
    Vcpu_new /\ VmAbsent /\ LifeAbsent /\ InitAbsent /\ IdsAbsent /\ MapperAbsent /\ EcbAbsent
    /\ InstAbsent /\ ModeNameAbsent

SpecVcpu == VcpuInit /\ [][VcpuNext]_vars

\* ================================================= vm.rs: lifecycle side
\* Largest config.num_vcpus offered to Vm::new.
MaxVcpus == 2
\* Largest VCPU id offered to add_vcpu.
MaxVcpuId == 1

VcpuIds == 0 .. MaxVcpuId
VmState == {"Creating", "Stopped", "Running", "Paused", "Destroying"}

\* Vm::new: state Creating, no VCPU, the configuration as given.
Vm_new_life ==
    /\ vm_state = "Creating"
    /\ vcpu_ids = <<>>
    /\ num_vcpus \in 0 .. MaxVcpus
    /\ life_op = "none"
    /\ life_result = "None"

\* An add_vcpu that compares with `>` instead of `>=`.
Vm_add_vcpu_off_by_one(vcpu_id) ==
    /\ life_op' = "add_vcpu"
    /\ IF Len(vcpu_ids) > num_vcpus
       THEN /\ life_result' = "MaxVcpusReached"
            /\ UNCHANGED vcpu_ids
       ELSE /\ vcpu_ids' = Append(vcpu_ids, vcpu_id)
            /\ life_result' = "Ok"
    /\ UNCHANGED <<vm_state, num_vcpus, NotLife>>

\* Vm::add_vcpu
Vm_add_vcpu(vcpu_id) ==
    /\ life_op' = "add_vcpu"
    /\ IF Len(vcpu_ids) >= num_vcpus
       THEN /\ life_result' = "MaxVcpusReached"
            /\ UNCHANGED vcpu_ids
       ELSE /\ vcpu_ids' = Append(vcpu_ids, vcpu_id)
            /\ life_result' = "Ok"
    /\ UNCHANGED <<vm_state, num_vcpus, NotLife>>

\* Vm::set_state: an unconditional store.
Vm_set_state(state) ==
    /\ life_op' = "set_state"
    /\ vm_state' = state
    /\ life_result' = "Ok"
    /\ UNCHANGED <<vcpu_ids, num_vcpus, NotLife>>

VmAddVcpu == \E vcpu_id \in VcpuIds : Vm_add_vcpu(vcpu_id)

VmSetState == \E state \in VmState : Vm_set_state(state)

VmLifeNext == VmAddVcpu \/ VmSetState

VmLifeInit ==
    Vm_new_life /\ VmAbsent /\ VcpuAbsent /\ InitAbsent /\ IdsAbsent /\ MapperAbsent /\ EcbAbsent
    /\ InstAbsent /\ ModeNameAbsent

SpecVmLife == VmLifeInit /\ [][VmLifeNext]_vars

\* ====================================================== mod.rs: init()
\* Number of threads that call init().
NumCallers == 2

Callers == 1 .. NumCallers

\* detect_virt_tech: VMX first, then SVM, else Err(NotSupported).
detect_virt_tech(c) ==
    IF c.vmx THEN "Vmx" ELSE IF c.svm THEN "Svm" ELSE "NotSupported"

\* detect_capabilities: Err(NotSupported) without a technology, otherwise a
\* report whose hw_virt_available is true.
detect_capabilities(c) ==
    IF detect_virt_tech(c) = "NotSupported"
    THEN [result |-> "NotSupported", hw_virt_available |-> FALSE]
    ELSE [result |-> "Ok", hw_virt_available |-> TRUE]

\* What enable_vmx_operation / enable_svm_operation can return: the frame
\* allocation or the enabling instruction may fail.
EnableOutcomes == {"Ok", "OutOfMemory", "InitializationFailed"}

\* arch::init: detect_virt_tech again, then vmx::init / svm::init, which
\* test CPUID and the firmware before they enable the technology.
arch_init(c, fw, enable) ==
    IF detect_virt_tech(c) = "NotSupported" THEN "NotSupported"
    ELSE IF ~fw THEN "NotSupported"
    ELSE enable

\* Start of the system: the flag is clear and nobody is inside init().
Hypervisor_boot ==
    /\ HYPERVISOR_INITIALIZED = FALSE
    /\ cpu \in [vmx : BOOLEAN, svm : BOOLEAN]
    /\ firmware_ok \in BOOLEAN
    /\ init_pc = [t \in Callers |-> "idle"]
    /\ init_result = [t \in Callers |-> "None"]
    /\ init_ok_seen = FALSE

\* A guard that sets the flag without looking at its old value.
init_swap_unguarded(t) ==
    /\ init_pc[t] = "idle"
    /\ HYPERVISOR_INITIALIZED' = TRUE
    /\ init_pc' = [init_pc EXCEPT ![t] = "detect"]
    /\ init_result' = [init_result EXCEPT ![t] = "None"]
    /\ UNCHANGED <<cpu, firmware_ok, init_ok_seen, NotInit>>

\* init(): HYPERVISOR_INITIALIZED.swap(true) and the early return.
init_swap(t) ==
    /\ init_pc[t] = "idle"
    /\ HYPERVISOR_INITIALIZED' = TRUE
    /\ IF HYPERVISOR_INITIALIZED
       THEN /\ init_result' = [init_result EXCEPT ![t] = "AlreadyInitialized"]
            /\ UNCHANGED init_pc
       ELSE /\ init_pc' = [init_pc EXCEPT ![t] = "detect"]
            /\ init_result' = [init_result EXCEPT ![t] = "None"]
    /\ UNCHANGED <<cpu, firmware_ok, init_ok_seen, NotInit>>

\* init(): arch::detect_capabilities()? and the hw_virt_available test.
init_detect(t) ==
    /\ init_pc[t] = "detect"
    /\ LET caps == detect_capabilities(cpu)
       IN  IF caps.result # "Ok"
           THEN /\ init_result' = [init_result EXCEPT ![t] = caps.result]
                /\ init_pc' = [init_pc EXCEPT ![t] = "idle"]
                /\ UNCHANGED HYPERVISOR_INITIALIZED
           ELSE IF ~caps.hw_virt_available
           THEN /\ HYPERVISOR_INITIALIZED' = FALSE
                /\ init_result' = [init_result EXCEPT ![t] = "NotSupported"]
                /\ init_pc' = [init_pc EXCEPT ![t] = "idle"]
           ELSE /\ init_pc' = [init_pc EXCEPT ![t] = "arch_init"]
                /\ UNCHANGED <<HYPERVISOR_INITIALIZED, init_result>>
    /\ UNCHANGED <<cpu, firmware_ok, init_ok_seen, NotInit>>

\* init(): arch::init(&caps)? and Ok(caps).
init_arch_init(t, enable) ==
    /\ init_pc[t] = "arch_init"
    /\ LET r == arch_init(cpu, firmware_ok, enable)
       IN  /\ init_result' = [init_result EXCEPT ![t] = r]
           /\ init_ok_seen' = (init_ok_seen \/ r = "Ok")
    /\ init_pc' = [init_pc EXCEPT ![t] = "idle"]
    /\ UNCHANGED <<HYPERVISOR_INITIALIZED, cpu, firmware_ok, NotInit>>

InitSwap == \E t \in Callers : init_swap(t)

InitDetect == \E t \in Callers : init_detect(t)

InitArchInit == \E t \in Callers, enable \in EnableOutcomes : init_arch_init(t, enable)

InitNext == InitSwap \/ InitDetect \/ InitArchInit

HypervisorInit ==
    Hypervisor_boot /\ VmAbsent /\ VcpuAbsent /\ LifeAbsent /\ IdsAbsent /\ MapperAbsent /\ EcbAbsent
    /\ InstAbsent /\ ModeNameAbsent

SpecInit == HypervisorInit /\ [][InitNext]_vars

\* ============================== id counters and the mode instances (modes/)
\* Number of ids each counter hands out in the model.
MaxIds == 3

\* The mode instances that allocate ids concurrently.
Modes == {"Type1", "VirtIO", "Hvt"}

\* A read of the counter that does not advance it.
fetch_keep(counter, n) == [value |-> counter, counter |-> counter]

\* AtomicU64::fetch_add(n, SeqCst): returns the old value and stores old + n
\* in one atomic step.
fetch_add(counter, n) == [value |-> counter, counter |-> counter + n]

\* Vec::retain(|&id| id != vm_id)
RECURSIVE retain(_, _)
retain(list, vm_id) ==
    IF list = <<>> THEN <<>>
    ELSE IF Head(list) # vm_id THEN <<Head(list)>> \o retain(Tail(list), vm_id)
    ELSE retain(Tail(list), vm_id)

\* HypervisorModeImpl::init of the three modes: empty lists; the counters are
\* statics that start at 0.
Modes_init ==
    /\ VM_COUNTER = 0
    /\ VCPU_COUNTER = 0
    /\ vms = [m \in Modes |-> <<>>]
    /\ vm_ids_out = <<>>
    /\ vcpu_ids_out = <<>>
    /\ vms_destroyed = {}
    /\ id_op = "none"

\* create_vm: allocate_vm_id(), then Type1 and VirtIO push the id on their
\* list; the HVT tender records nothing.
Mode_create_vm(mode) ==
    /\ VM_COUNTER < MaxIds
    /\ LET a == fetch_add(VM_COUNTER, 1)
       IN  /\ VM_COUNTER' = a.counter
           /\ vm_ids_out' = Append(vm_ids_out, a.value)
           /\ vms' = IF mode = "Hvt" THEN vms
                     ELSE [vms EXCEPT ![mode] = Append(vms[mode], a.value)]
    /\ id_op' = "create_vm"
    /\ UNCHANGED <<VCPU_COUNTER, vcpu_ids_out, vms_destroyed, NotIds>>

\* destroy_vm: retain every other id; the counter is not touched.
Mode_destroy_vm(mode, vm_id) ==
    /\ vms' = [vms EXCEPT ![mode] = retain(vms[mode], vm_id)]
    /\ vms_destroyed' = IF vms'[mode] # vms[mode]
                          THEN vms_destroyed \cup {vm_id} ELSE vms_destroyed
    /\ id_op' = "destroy_vm"
    /\ UNCHANGED <<VM_COUNTER, VCPU_COUNTER, vm_ids_out, vcpu_ids_out, NotIds>>

\* create_vcpu: allocate_vcpu_id(); the VM id is not looked up.
Mode_create_vcpu(mode, vm_id) ==
    /\ VCPU_COUNTER < MaxIds
    /\ LET a == fetch_add(VCPU_COUNTER, 1)
       IN  /\ VCPU_COUNTER' = a.counter
           /\ vcpu_ids_out' = Append(vcpu_ids_out, a.value)
    /\ id_op' = "create_vcpu"
    /\ UNCHANGED <<VM_COUNTER, vms, vm_ids_out, vms_destroyed, NotIds>>

ModeCreateVm == \E mode \in Modes : Mode_create_vm(mode)

ModeDestroyVm == \E mode \in Modes, vm_id \in 0 .. (MaxIds - 1) : Mode_destroy_vm(mode, vm_id)

ModeCreateVcpu == \E mode \in Modes, vm_id \in 0 .. (MaxIds - 1) : Mode_create_vcpu(mode, vm_id)

IdsNext == ModeCreateVm \/ ModeDestroyVm \/ ModeCreateVcpu

IdsInit ==
    Modes_init /\ VmAbsent /\ VcpuAbsent /\ LifeAbsent /\ InitAbsent /\ MapperAbsent /\ EcbAbsent
    /\ InstAbsent /\ ModeNameAbsent

SpecIds == IdsInit /\ [][IdsNext]_vars

\* ================================ arch/x86_64/ept.rs and arch/x86_64/npt.rs
\* Width of one table index (9 bits in the source: 512 entries per table).
IdxBits == 1
\* Frames of the frame allocator besides the root table's.
MaxFrames == 4

TableSize == 2 ^ IdxBits
\* A guest page number whose index bits are those of page 0 and that differs
\* from it only above the four indices (bits 48..63 of the address).
AliasOfZero == 2 ^ (4 * IdxBits)
\* The guest pages offered to map / unmap: two pages of one leaf table, a
\* page under another directory (PD), and the alias.
GuestPages == {0, 1, TableSize * TableSize, AliasOfZero}

\* EptFlags (read, write, execute) and NptFlags (present, writable, user,
\* no_execute) as the bits 0, 1, 2 and 63 they are written to.
NoFlags == [b0 |-> FALSE, b1 |-> FALSE, b2 |-> FALSE, nx |-> FALSE]
EptFlagsOffered ==
    {[b0 |-> r, b1 |-> w, b2 |-> x, nx |-> FALSE] :
        <<r, w, x>> \in {<<FALSE, FALSE, FALSE>>, <<FALSE, TRUE, FALSE>>,
                         <<TRUE, TRUE, TRUE>>}}
NptFlagsOffered ==
    EptFlagsOffered \cup {[b0 |-> TRUE, b1 |-> TRUE, b2 |-> TRUE, nx |-> TRUE]}
FlagsOffered(be) == IF be = "Ept" THEN EptFlagsOffered ELSE NptFlagsOffered

\* Bits of the offset in a page: (gpa_val >> 12) is the page number.
PageBits == 12

\* Frame::base of the frame the model numbers f.
frame_base(f) == f * 2 ^ PageBits

\* addr & 0x000F_FFFF_FFFF_F000: the offset bits are cleared.  The addresses
\* of the model lie below 2^52, so the upper part of the mask keeps them.
address_bits(addr) == (addr \div 2 ^ PageBits) * 2 ^ PageBits

\* The bitwise or of two u64 values.
RECURSIVE bit_or(_, _)
bit_or(a, b) ==
    IF a = 0 THEN b
    ELSE IF b = 0 THEN a
    ELSE (IF a % 2 = 1 \/ b % 2 = 1 THEN 1 ELSE 0) + 2 * bit_or(a \div 2, b \div 2)

\* EptEntry::new / NptEntry::new: the zero word.
EmptyEntry == [b0 |-> FALSE, b1 |-> FALSE, b2 |-> FALSE, nx |-> FALSE, mt |-> 0, addr |-> 0]

\* EptPageTable::new / a zeroed frame.
EmptyTable == [i \in 0 .. (TableSize - 1) |-> EmptyEntry]

\* EptEntry::is_present: any of R/W/X; NptEntry::is_present: bit 0.
is_present(be, entry) ==
    IF be = "Ept" THEN entry.b0 \/ entry.b1 \/ entry.b2 ELSE entry.b0

\* EptEntry::address / NptEntry::address
address(entry) == entry.addr

\* A set_address that ors the new address and flags into the old entry.
set_address_or_old(be, entry, addr, flags) ==
    [b0 |-> entry.b0 \/ flags.b0, b1 |-> entry.b1 \/ flags.b1, b2 |-> entry.b2 \/ flags.b2,
     nx |-> entry.nx \/ flags.nx, mt |-> IF be = "Ept" THEN 6 ELSE 0,
     addr |-> bit_or(entry.addr, addr)]

\* EptEntry::set_address clears bits 0..51, keeps bits 52..63, and ors in the
\* address and to_ept_entry(flags), which always carries memory type 6;
\* NptEntry::set_address starts from 0 and ors in address and to_npt_entry.
set_address(be, entry, addr, flags) ==
    IF be = "Ept"
    THEN [b0 |-> flags.b0, b1 |-> flags.b1, b2 |-> flags.b2, nx |-> entry.nx,
          mt |-> 6, addr |-> addr]
    ELSE [b0 |-> flags.b0, b1 |-> flags.b1, b2 |-> flags.b2, nx |-> flags.nx,
          mt |-> 0, addr |-> addr]

\* Table flags that grant read only.
table_flags_read_only(be) == [b0 |-> TRUE, b1 |-> FALSE, b2 |-> FALSE, nx |-> FALSE]

\* EptFlags::read_write_execute() / NptFlags::read_write(), as used by
\* get_or_create_table.
table_flags(be) == [b0 |-> TRUE, b1 |-> TRUE, b2 |-> TRUE, nx |-> FALSE]

\* (gpa_val >> shift) & 0x1FF for level 4 (PML4) down to level 1 (PT).
index(gpn, level) == (gpn \div (TableSize ^ (level - 1))) % TableSize

\* A get_or_create_table that links the new frame without zeroing it: the
\* frame still holds what its last user left (entries that are not present).
get_or_create_table_unzeroed(be, tbls, frame, idx, avail) ==
    LET entry == tbls[frame][idx]
    IN  IF is_present(be, entry)
        THEN [result |-> "Ok", addr |-> address(entry), tables |-> tbls, avail |-> avail]
        ELSE IF avail = 0
        THEN [result |-> "OutOfMemory", addr |-> 0, tables |-> tbls, avail |-> 0]
        ELSE LET addr == Len(tbls) + 1
                 linked == [tbls EXCEPT ![frame][idx] =
                                set_address(be, entry, addr, table_flags(be))]
                 stale == [i \in 0 .. (TableSize - 1) |-> [EmptyEntry EXCEPT !.addr = 1]]
             IN  [result |-> "Ok", addr |-> addr,
                  tables |-> Append(linked, stale), avail |-> avail - 1]

\* get_or_create_table on the entry idx of the table in `frame`; avail is the
\* number of frames the allocator can still hand out.
get_or_create_table(be, tbls, frame, idx, avail) ==
    LET entry == tbls[frame][idx]
    IN  IF is_present(be, entry)
        THEN [result |-> "Ok", addr |-> address(entry), tables |-> tbls, avail |-> avail]
        ELSE IF avail = 0
        THEN [result |-> "OutOfMemory", addr |-> 0, tables |-> tbls, avail |-> 0]
        ELSE LET addr == Len(tbls) + 1
                 linked == [tbls EXCEPT ![frame][idx] =
                                set_address(be, entry, addr, table_flags(be))]
             IN  [result |-> "Ok", addr |-> addr,
                  tables |-> Append(linked, EmptyTable), avail |-> avail - 1]

\* A map() that drops the tables it created when an allocation fails.
map_tables_rollback(be, tbls, pml4, gpn, hpa, flags, avail) ==
    LET pdpt == get_or_create_table(be, tbls, pml4, index(gpn, 4), avail)
    IN  IF pdpt.result # "Ok" THEN [result |-> pdpt.result, tables |-> tbls]
        ELSE
    LET pd == get_or_create_table(be, pdpt.tables, pdpt.addr, index(gpn, 3), pdpt.avail)
    IN  IF pd.result # "Ok" THEN [result |-> pd.result, tables |-> tbls]
        ELSE
    LET pt == get_or_create_table(be, pd.tables, pd.addr, index(gpn, 2), pd.avail)
    IN  IF pt.result # "Ok" THEN [result |-> pt.result, tables |-> tbls]
        ELSE [result |-> "Ok",
              tables |-> [pt.tables EXCEPT ![pt.addr][index(gpn, 1)] =
                             set_address(be, @, hpa, flags)]]

\* The body of map(): three get_or_create_table calls, each with `?`, then
\* the leaf write.
map_tables(be, tbls, pml4, gpn, hpa, flags, avail) ==
    LET pdpt == get_or_create_table(be, tbls, pml4, index(gpn, 4), avail)
    IN  IF pdpt.result # "Ok" THEN [result |-> pdpt.result, tables |-> pdpt.tables]
        ELSE
    LET pd == get_or_create_table(be, pdpt.tables, pdpt.addr, index(gpn, 3), pdpt.avail)
    IN  IF pd.result # "Ok" THEN [result |-> pd.result, tables |-> pd.tables]
        ELSE
    LET pt == get_or_create_table(be, pd.tables, pd.addr, index(gpn, 2), pd.avail)
    IN  IF pt.result # "Ok" THEN [result |-> pt.result, tables |-> pt.tables]
        ELSE [result |-> "Ok",
              tables |-> [pt.tables EXCEPT ![pt.addr][index(gpn, 1)] =
                             set_address(be, @, hpa, flags)]]

\* The read-only walk of unmap() down to the leaf table: the frame of the PT,
\* or 0 when an intermediate entry is absent.
walk_to_pt(be, tbls, pml4, gpn) ==
    LET e4 == tbls[pml4][index(gpn, 4)]
    IN  IF ~is_present(be, e4) THEN 0
        ELSE
    LET e3 == tbls[address(e4)][index(gpn, 3)]
    IN  IF ~is_present(be, e3) THEN 0
        ELSE
    LET e2 == tbls[address(e3)][index(gpn, 2)]
    IN  IF ~is_present(be, e2) THEN 0
        ELSE address(e2)

\* The body of unmap(): Ok at the first absent intermediate entry, otherwise
\* the leaf entry is set to 0.
unmap_tables(be, tbls, pml4, gpn) ==
    LET pt == walk_to_pt(be, tbls, pml4, gpn)
    IN  IF pt = 0 THEN [result |-> "Ok", tables |-> tbls]
        ELSE [result |-> "Ok",
              tables |-> [tbls EXCEPT ![pt][index(gpn, 1)] = EmptyEntry]]

\* The four-level translation of a guest page, as the hardware walks the
\* tables: mapped when every entry on the path is present.
translate(be, tbls, pml4, gpn) ==
    LET pt == walk_to_pt(be, tbls, pml4, gpn)
    IN  IF pt = 0 THEN [mapped |-> FALSE, hpa |-> 0, flags |-> NoFlags]
        ELSE LET leaf == tbls[pt][index(gpn, 1)]
             IN  IF ~is_present(be, leaf)
                 THEN [mapped |-> FALSE, hpa |-> 0, flags |-> NoFlags]
                 ELSE [mapped |-> TRUE, hpa |-> address(leaf),
                       flags |-> [b0 |-> leaf.b0, b1 |-> leaf.b1, b2 |-> leaf.b2,
                                  nx |-> leaf.nx]]

\* An ept_pointer that leaves the control bits out.
ept_pointer_address_only(pml4) == address_bits(frame_base(pml4))

\* EptMapper::ept_pointer
ept_pointer(pml4) ==
    LET memory_type == 6
        page_walk_length == 3
    IN  bit_or(bit_or(address_bits(frame_base(pml4)), page_walk_length * 2 ^ 3),
               memory_type)

\* NptMapper::npt_cr3
npt_cr3(pml4) == address_bits(frame_base(pml4))

\* The root pointer accessor of the backend.
root_pointer(be, pml4) == IF be = "Ept" THEN ept_pointer(pml4) ELSE npt_cr3(pml4)

\* The frames not held by this mapper: free, or taken by other users of the
\* frame allocator.
frames_elsewhere(tbls) == MaxFrames - (Len(tbls) - 1)

\* EptMapper::new / NptMapper::new: a zeroed root table.
Mapper_new ==
    /\ backend \in {"Ept", "Npt"}
    /\ pml4_addr = 1
    /\ tables = <<EmptyTable>>
    /\ free_frames \in 0 .. MaxFrames
    /\ mapped_now = {}
    /\ mapper_op = "none"
    /\ mapper_args = [gpn |-> 0, hpa |-> 0, flags |-> NoFlags]
    /\ mapper_result = "None"
    /\ mapper_allocs = 0

\* EptMapper::map / NptMapper::map
Mapper_map(gpn, hpa, flags) ==
    /\ mapper_op # "drop"
    /\ flags \in FlagsOffered(backend)
    /\ LET r == map_tables(backend, tables, pml4_addr, gpn, hpa, flags, free_frames)
       IN  /\ tables' = r.tables
           /\ mapper_result' = r.result
           /\ mapper_allocs' = Len(r.tables) - Len(tables)
           /\ free_frames' = free_frames - (Len(r.tables) - Len(tables))
           /\ mapped_now' = IF r.result = "Ok" THEN mapped_now \cup {gpn} ELSE mapped_now
    /\ mapper_op' = "map"
    /\ mapper_args' = [gpn |-> gpn, hpa |-> hpa, flags |-> flags]
    /\ UNCHANGED <<backend, pml4_addr, NotMapper>>

\* EptMapper::unmap / NptMapper::unmap
Mapper_unmap(gpn) ==
    /\ mapper_op # "drop"
    /\ LET r == unmap_tables(backend, tables, pml4_addr, gpn)
       IN  /\ tables' = r.tables
           /\ mapper_result' = r.result
    /\ mapper_allocs' = 0
    /\ mapped_now' = mapped_now \ {gpn}
    /\ UNCHANGED free_frames
    /\ mapper_op' = "unmap"
    /\ mapper_args' = [gpn |-> gpn, hpa |-> 0, flags |-> NoFlags]
    /\ UNCHANGED <<backend, pml4_addr, NotMapper>>

\* Other users of memory::allocate_frame / deallocate_frame take and return
\* frames between two mapper calls.
Allocator_others(n) ==
    /\ mapper_op # "drop"
    /\ n # free_frames
    /\ n <= frames_elsewhere(tables)
    /\ free_frames' = n
    /\ mapper_op' = "allocator"
    /\ UNCHANGED <<backend, pml4_addr, tables, mapped_now, mapper_args, mapper_result,
                   mapper_allocs, NotMapper>>

\* impl Drop for EptMapper / NptMapper: a log line.  No table is walked and
\* no frame goes back to the allocator; the model follows the mapper up to
\* here.
Mapper_drop ==
    /\ mapper_op # "drop"
    /\ mapper_op' = "drop"
    /\ UNCHANGED <<backend, pml4_addr, tables, free_frames, mapped_now, mapper_args,
                   mapper_result, mapper_allocs, NotMapper>>

MapperMap ==
    \E gpn \in GuestPages, hpa \in Hpas, flags \in NptFlagsOffered :
        Mapper_map(gpn, hpa, flags)

MapperUnmap == \E gpn \in GuestPages : Mapper_unmap(gpn)

AllocatorOthers == \E n \in 0 .. MaxFrames : Allocator_others(n)

MapperNext == MapperMap \/ MapperUnmap \/ AllocatorOthers \/ Mapper_drop

MapperInit ==
    Mapper_new /\ VmAbsent /\ VcpuAbsent /\ LifeAbsent /\ InitAbsent /\ IdsAbsent /\ EcbAbsent
    /\ InstAbsent /\ ModeNameAbsent

SpecMapper == MapperInit /\ [][MapperNext]_vars

\* ============================ arch/x86_64/vmcs.rs and arch/x86_64/vmcb.rs
\* Frames the frame allocator holds for control blocks.
NumEcbFrames == 1

\* The handles the model follows: a first and a second one.
Handles == {1, 2}
EcbFrames == 1 .. NumEcbFrames

\* What read_cr0(), read_cs(), read_msr(..) and the like return: one word
\* stands for the host's register values.
HostWord == 7
\* 1 << 9: "host address-space size" of the exit controls, "IA-32e mode
\* guest" of the entry controls.
Bit9 == 512

\* The vmwrite calls of VmcsHandle::initialize, in the order of the source.
InitWrites ==
    << [field |-> "HostCr0", value |-> HostWord],
       [field |-> "HostCr3", value |-> HostWord],
       [field |-> "HostCr4", value |-> HostWord],
       [field |-> "HostCsSelector", value |-> HostWord],
       [field |-> "HostSsSelector", value |-> HostWord],
       [field |-> "HostDsSelector", value |-> HostWord],
       [field |-> "HostEsSelector", value |-> HostWord],
       [field |-> "HostFsSelector", value |-> HostWord],
       [field |-> "HostGsSelector", value |-> HostWord],
       [field |-> "HostTrSelector", value |-> HostWord],
       [field |-> "HostFsBase", value |-> HostWord],
       [field |-> "HostGsBase", value |-> HostWord],
       [field |-> "HostTrBase", value |-> 0],
       [field |-> "HostGdtrBase", value |-> HostWord],
       [field |-> "HostIdtrBase", value |-> HostWord],
       [field |-> "PinBasedVmExecControl", value |-> 0],
       [field |-> "PrimaryProcBasedVmExecControl", value |-> 0],
       [field |-> "VmExitControls", value |-> Bit9],
       [field |-> "VmEntryControls", value |-> Bit9] >>

\* The VmcsField values the model keeps: those initialize writes and the EPT
\* pointer.
VmcsFields == {InitWrites[i].field : i \in 1 .. Len(InitWrites)} \cup {"EptPointer"}

\* The fields of the VMCB the model keeps: the control-area fields that
\* initialize sets besides the intercepts, the nested root, and the control
\* registers and EFER of the state save area.
VmcbFields == {"guest_asid", "np_enable", "tlb_control", "n_cr3", "cr0", "cr3", "cr4", "efer"}

EcbFields(tech) == IF tech = "Vmx" THEN VmcsFields ELSE VmcbFields

\* write_bytes(.., 0, ..) of Vmcs::new / Vmcb::new: every field reads 0.
ZeroBlock(tech) == [f \in EcbFields(tech) |-> 0]

\* The fields read() and write() are called with, and the values written.
FieldsOffered == {"EptPointer", "VmEntryControls"}
ValuesOffered == {0, Bit9}
\* The guest ASIDs given to VmcbHandle::initialize.
Asids == {1, 2}

\* A processor that refuses nothing.
NoFaults == [clear_fails |-> FALSE, load_fails |-> FALSE, bad_field |-> "none"]

EcbResult(kind, value) == [kind |-> kind, value |-> value]

\* VMCLEAR: fails (CF or ZF set, so `setna` gives 1) when the processor
\* refuses the region; otherwise the region stops being current.
vmclear(hw, cur, h) ==
    IF hw.clear_fails THEN [ok |-> FALSE, current |-> cur]
    ELSE [ok |-> TRUE, current |-> IF cur = h THEN 0 ELSE cur]

\* VMPTRLD: fails when the processor refuses the region (a revision id it
\* does not know); otherwise the region becomes current.
vmptrld(hw, cur, h) ==
    IF hw.load_fails THEN [ok |-> FALSE, current |-> cur]
    ELSE [ok |-> TRUE, current |-> h]

\* VMREAD: acts on the current VMCS, whatever handle it is issued through;
\* fails without a current VMCS and on a field the processor does not have.
vmread(hw, cur, content, field) ==
    IF cur = 0 \/ field = hw.bad_field THEN [ok |-> FALSE, value |-> 0]
    ELSE [ok |-> TRUE, value |-> content[cur][field]]

\* VMWRITE: likewise.
vmwrite(hw, cur, content, field, value) ==
    IF cur = 0 \/ field = hw.bad_field THEN [ok |-> FALSE, content |-> content]
    ELSE [ok |-> TRUE, content |-> [content EXCEPT ![cur][field] = value]]

\* A chain of writes that goes on after a write has failed.
RECURSIVE write_all_keep_going(_, _, _, _, _)
write_all_keep_going(hw, cur, content, i, log) ==
    IF i > Len(InitWrites) THEN [kind |-> "Ok", content |-> content, log |-> log]
    ELSE LET w == vmwrite(hw, cur, content, InitWrites[i].field, InitWrites[i].value)
             issued == Append(log, [ins |-> "vmwrite", field |-> InitWrites[i].field])
             rest == write_all_keep_going(hw, cur, w.content, i + 1, issued)
         IN  [kind |-> IF w.ok THEN rest.kind ELSE "InvalidParameter",
              content |-> rest.content, log |-> rest.log]

\* The chain of self.write(..)? calls of initialize from InitWrites[i] on.
RECURSIVE write_all(_, _, _, _, _)
write_all(hw, cur, content, i, log) ==
    IF i > Len(InitWrites) THEN [kind |-> "Ok", content |-> content, log |-> log]
    ELSE LET w == vmwrite(hw, cur, content, InitWrites[i].field, InitWrites[i].value)
             issued == Append(log, [ins |-> "vmwrite", field |-> InitWrites[i].field])
         IN  IF ~w.ok
             THEN [kind |-> "InvalidParameter", content |-> content, log |-> issued]
             ELSE write_all(hw, cur, w.content, i + 1, issued)

\* memory::allocate_frame as these handles see it: the lowest free frame.
lowest(frames) == CHOOSE f \in frames : \A g \in frames : f <= g

\* Start: no handle exists, every frame is free, no VMCS is current.
Ecb_boot ==
    /\ ecb_tech \in VirtTech
    /\ ecb_hw \in [clear_fails : BOOLEAN, load_fails : BOOLEAN,
                   bad_field : VmcsFields \cup {"none"}]
    /\ ecb_tech = "Svm" => ecb_hw = NoFaults
    /\ ecb_handle = [h \in Handles |-> "none"]
    /\ ecb_frame = [h \in Handles |-> 0]
    /\ ecb_content = [h \in Handles |-> ZeroBlock(ecb_tech)]
    /\ ecb_free = EcbFrames
    /\ ecb_deallocs = [h \in Handles |-> 0]
    /\ current_vmcs = 0
    /\ ecb_op = [name |-> "none", h |-> 0]
    /\ ecb_result = EcbResult("None", 0)
    /\ ecb_log = <<>>

\* The part Vmcs::new and Vmcb::new share: allocate a frame, zero it.
Ecb_new(h, name) ==
    /\ ecb_handle[h] = "none"
    /\ ecb_op' = [name |-> name, h |-> h]
    /\ ecb_log' = <<>>
    /\ IF ecb_free = {}
       THEN /\ ecb_result' = EcbResult("OutOfMemory", 0)
            /\ UNCHANGED <<ecb_handle, ecb_frame, ecb_content, ecb_free>>
       ELSE /\ ecb_result' = EcbResult("Ok", 0)
            /\ ecb_handle' = [ecb_handle EXCEPT ![h] = "live"]
            /\ ecb_frame' = [ecb_frame EXCEPT ![h] = lowest(ecb_free)]
            /\ ecb_content' = [ecb_content EXCEPT ![h] = ZeroBlock(ecb_tech)]
            /\ ecb_free' = ecb_free \ {lowest(ecb_free)}
    /\ UNCHANGED <<ecb_tech, ecb_hw, ecb_deallocs, current_vmcs, NotEcb>>

\* Vmcs::new
Vmcs_new(h) ==
    /\ ecb_tech = "Vmx"
    /\ Ecb_new(h, "new")

\* Vmcb::new
Vmcb_new(h) ==
    /\ ecb_tech = "Svm"
    /\ Ecb_new(h, "new")

\* VmcsHandle::clear
VmcsHandle_clear(h) ==
    /\ ecb_tech = "Vmx"
    /\ ecb_handle[h] = "live"
    /\ LET r == vmclear(ecb_hw, current_vmcs, h)
       IN  /\ current_vmcs' = r.current
           /\ ecb_result' = IF r.ok THEN EcbResult("Ok", 0)
                            ELSE EcbResult("InitializationFailed", 0)
    /\ ecb_op' = [name |-> "clear", h |-> h]
    /\ ecb_log' = <<[ins |-> "vmclear", field |-> "none"]>>
    /\ UNCHANGED <<ecb_tech, ecb_hw, ecb_handle, ecb_frame, ecb_content, ecb_free,
                   ecb_deallocs, NotEcb>>

\* VmcsHandle::load
VmcsHandle_load(h) ==
    /\ ecb_tech = "Vmx"
    /\ ecb_handle[h] = "live"
    /\ LET r == vmptrld(ecb_hw, current_vmcs, h)
       IN  /\ current_vmcs' = r.current
           /\ ecb_result' = IF r.ok THEN EcbResult("Ok", 0)
                            ELSE EcbResult("InitializationFailed", 0)
    /\ ecb_op' = [name |-> "load", h |-> h]
    /\ ecb_log' = <<[ins |-> "vmptrld", field |-> "none"]>>
    /\ UNCHANGED <<ecb_tech, ecb_hw, ecb_handle, ecb_frame, ecb_content, ecb_free,
                   ecb_deallocs, NotEcb>>

\* A read that hands out the register content when the instruction failed.
VmcsHandle_read_unchecked(h, field) ==
    /\ ecb_tech = "Vmx"
    /\ ecb_handle[h] = "live"
    /\ ecb_result' = EcbResult("Ok", vmread(ecb_hw, current_vmcs, ecb_content, field).value)
    /\ ecb_op' = [name |-> "read", h |-> h]
    /\ ecb_log' = <<[ins |-> "vmread", field |-> field]>>
    /\ UNCHANGED <<ecb_tech, ecb_hw, ecb_handle, ecb_frame, ecb_content, ecb_free,
                   ecb_deallocs, current_vmcs, NotEcb>>

\* VmcsHandle::read
VmcsHandle_read(h, field) ==
    /\ ecb_tech = "Vmx"
    /\ ecb_handle[h] = "live"
    /\ LET r == vmread(ecb_hw, current_vmcs, ecb_content, field)
       IN  ecb_result' = IF r.ok THEN EcbResult("Ok", r.value)
                         ELSE EcbResult("InvalidParameter", 0)
    /\ ecb_op' = [name |-> "read", h |-> h]
    /\ ecb_log' = <<[ins |-> "vmread", field |-> field]>>
    /\ UNCHANGED <<ecb_tech, ecb_hw, ecb_handle, ecb_frame, ecb_content, ecb_free,
                   ecb_deallocs, current_vmcs, NotEcb>>

\* VmcsHandle::write
VmcsHandle_write(h, field, value) ==
    /\ ecb_tech = "Vmx"
    /\ ecb_handle[h] = "live"
    /\ LET r == vmwrite(ecb_hw, current_vmcs, ecb_content, field, value)
       IN  /\ ecb_content' = r.content
           /\ ecb_result' = IF r.ok THEN EcbResult("Ok", 0)
                            ELSE EcbResult("InvalidParameter", 0)
    /\ ecb_op' = [name |-> "write", h |-> h]
    /\ ecb_log' = <<[ins |-> "vmwrite", field |-> field]>>
    /\ UNCHANGED <<ecb_tech, ecb_hw, ecb_handle, ecb_frame, ecb_free, ecb_deallocs,
                   current_vmcs, NotEcb>>

\* VmcsHandle::initialize: self.clear()?, self.load()?, then the writes.
VmcsHandle_initialize(h) ==
    /\ ecb_tech = "Vmx"
    /\ ecb_handle[h] = "live"
    /\ ecb_op' = [name |-> "initialize", h |-> h]
    /\ LET c == vmclear(ecb_hw, current_vmcs, h)
           l == vmptrld(ecb_hw, c.current, h)
           w == write_all(ecb_hw, l.current, ecb_content, 1,
                          <<[ins |-> "vmclear", field |-> "none"],
                            [ins |-> "vmptrld", field |-> "none"]>>)
       IN  IF ~c.ok
           THEN /\ ecb_result' = EcbResult("InitializationFailed", 0)
                /\ ecb_log' = <<[ins |-> "vmclear", field |-> "none"]>>
                /\ UNCHANGED <<current_vmcs, ecb_content>>
           ELSE IF ~l.ok
           THEN /\ ecb_result' = EcbResult("InitializationFailed", 0)
                /\ ecb_log' = <<[ins |-> "vmclear", field |-> "none"],
                                [ins |-> "vmptrld", field |-> "none"]>>
                /\ current_vmcs' = c.current
                /\ UNCHANGED ecb_content
           ELSE /\ ecb_result' = EcbResult(w.kind, 0)
                /\ ecb_log' = w.log
                /\ current_vmcs' = l.current
                /\ ecb_content' = w.content
    /\ UNCHANGED <<ecb_tech, ecb_hw, ecb_handle, ecb_frame, ecb_free, ecb_deallocs, NotEcb>>

\* impl Drop for VmcsHandle: a log line; the frame stays taken and, if its
\* VMCS is current, stays current.
VmcsHandle_drop(h) ==
    /\ ecb_tech = "Vmx"
    /\ ecb_handle[h] = "live"
    /\ ecb_handle' = [ecb_handle EXCEPT ![h] = "dropped"]
    /\ ecb_op' = [name |-> "drop", h |-> h]
    /\ ecb_result' = EcbResult("Ok", 0)
    /\ ecb_log' = <<>>
    /\ UNCHANGED <<ecb_tech, ecb_hw, ecb_frame, ecb_content, ecb_free, ecb_deallocs,
                   current_vmcs, NotEcb>>

\* VmcbHandle::initialize: stores to the block in memory; it cannot fail.
\* n_cr3 is not among the fields it sets.
VmcbHandle_initialize(h, guest_asid) ==
    /\ ecb_tech = "Svm"
    /\ ecb_handle[h] = "live"
    /\ ecb_content' = [ecb_content EXCEPT ![h] =
                          [@ EXCEPT !["guest_asid"] = guest_asid,
                                    !["np_enable"] = 1,
                                    !["tlb_control"] = 1,
                                    !["cr0"] = HostWord,
                                    !["cr3"] = HostWord,
                                    !["cr4"] = HostWord,
                                    !["efer"] = HostWord]]
    /\ ecb_op' = [name |-> "initialize", h |-> h]
    /\ ecb_result' = EcbResult("Ok", 0)
    /\ ecb_log' = <<>>
    /\ UNCHANGED <<ecb_tech, ecb_hw, ecb_handle, ecb_frame, ecb_free, ecb_deallocs,
                   current_vmcs, NotEcb>>

\* impl Drop for VmcbHandle: memory::deallocate_frame(Frame::containing(phys_addr)).
VmcbHandle_drop(h) ==
    /\ ecb_tech = "Svm"
    /\ ecb_handle[h] = "live"
    /\ ecb_handle' = [ecb_handle EXCEPT ![h] = "dropped"]
    /\ ecb_free' = ecb_free \cup {ecb_frame[h]}
    /\ ecb_deallocs' = [ecb_deallocs EXCEPT ![h] = @ + 1]
    /\ ecb_op' = [name |-> "drop", h |-> h]
    /\ ecb_result' = EcbResult("Ok", 0)
    /\ ecb_log' = <<>>
    /\ UNCHANGED <<ecb_tech, ecb_hw, ecb_frame, ecb_content, current_vmcs, NotEcb>>

VmcsNew == \E h \in Handles : Vmcs_new(h)

VmcbNew == \E h \in Handles : Vmcb_new(h)

VmcsClear == \E h \in Handles : VmcsHandle_clear(h)

VmcsLoad == \E h \in Handles : VmcsHandle_load(h)

VmcsRead == \E h \in Handles, field \in FieldsOffered : VmcsHandle_read(h, field)

VmcsWrite ==
    \E h \in Handles, field \in FieldsOffered, value \in ValuesOffered :
        VmcsHandle_write(h, field, value)

VmcsInitialize == \E h \in Handles : VmcsHandle_initialize(h)

VmcsDrop == \E h \in Handles : VmcsHandle_drop(h)

VmcbInitialize == \E h \in Handles, guest_asid \in Asids : VmcbHandle_initialize(h, guest_asid)

VmcbDrop == \E h \in Handles : VmcbHandle_drop(h)

EcbNext ==
    \/ VmcsNew
    \/ VmcbNew
    \/ VmcsClear
    \/ VmcsLoad
    \/ VmcsRead
    \/ VmcsWrite
    \/ VmcsInitialize
    \/ VmcsDrop
    \/ VmcbInitialize
    \/ VmcbDrop

EcbInit ==
    Ecb_boot /\ VmAbsent /\ VcpuAbsent /\ LifeAbsent /\ InitAbsent /\ IdsAbsent /\ MapperAbsent
    /\ InstAbsent /\ ModeNameAbsent

SpecEcb == EcbInit /\ [][EcbNext]_vars

\* ================= one mode instance: impl HypervisorModeImpl (modes/*/mod.rs)
\* Number of ids each counter hands out to the instance.
MaxInstIds == 2

\* The VM ids and VCPU ids the calls are given: those the counters hand out,
\* whether handed out already or not.
InstVmIds == 0 .. (MaxInstIds - 1)
InstVcpuIds == 0 .. (MaxInstIds - 1)
\* The interrupt vectors given to inject_interrupt.
Vectors == {0, 32}

\* capabilities(): max_vms and max_vcpus_per_vm of the three implementations.
capabilities(mode) ==
    CASE mode = "Type1" -> [max_vms |-> 64, max_vcpus_per_vm |-> 256]
      [] mode = "VirtIO" -> [max_vms |-> 128, max_vcpus_per_vm |-> 256]
      [] mode = "Hvt" -> [max_vms |-> 256, max_vcpus_per_vm |-> 1]

\* HypervisorModeImpl::init: an empty list.
Inst_init ==
    /\ inst_mode \in Modes
    /\ inst_config \in {1, MaxVcpus}
    /\ inst_vms = <<>>
    /\ inst_live = {}
    /\ inst_vcpus = [v \in InstVmIds |-> 0]
    /\ inst_op = [name |-> "none", vm_id |-> -1, vcpu_id |-> -1]
    /\ inst_result = "None"

\* create_vm: allocate_vm_id(), then Type1 and VirtIO push the id; the HVT
\* tender records nothing.  The configuration is not looked at.
Inst_create_vm(config) ==
    /\ VM_COUNTER < MaxInstIds
    /\ LET a == fetch_add(VM_COUNTER, 1)
       IN  /\ VM_COUNTER' = a.counter
           /\ inst_vms' = IF inst_mode = "Hvt" THEN inst_vms ELSE Append(inst_vms, a.value)
           /\ inst_live' = inst_live \cup {a.value}
           /\ inst_op' = [name |-> "create_vm", vm_id |-> a.value, vcpu_id |-> -1]
    /\ inst_result' = "Ok"
    /\ UNCHANGED <<inst_mode, inst_config, inst_vcpus, VCPU_COUNTER, vms, vm_ids_out,
                   vcpu_ids_out, vms_destroyed, id_op, NotInst>>

\* destroy_vm: retain every other id, Ok(()).
Inst_destroy_vm(vm_id) ==
    /\ inst_vms' = retain(inst_vms, vm_id)
    /\ inst_live' = inst_live \ {vm_id}
    /\ inst_op' = [name |-> "destroy_vm", vm_id |-> vm_id, vcpu_id |-> -1]
    /\ inst_result' = "Ok"
    /\ UNCHANGED <<inst_mode, inst_config, inst_vcpus, id_vars, NotInst>>

\* create_vcpu: allocate_vcpu_id(), Ok(vcpu_id); neither the VM id nor a
\* count is looked at.
Inst_create_vcpu(vm_id) ==
    /\ VCPU_COUNTER < MaxInstIds
    /\ LET a == fetch_add(VCPU_COUNTER, 1)
       IN  /\ VCPU_COUNTER' = a.counter
           /\ inst_op' = [name |-> "create_vcpu", vm_id |-> vm_id, vcpu_id |-> a.value]
    /\ inst_vcpus' = [inst_vcpus EXCEPT ![vm_id] = @ + 1]
    /\ inst_result' = "Ok"
    /\ UNCHANGED <<inst_mode, inst_config, inst_vms, inst_live, VM_COUNTER, vms, vm_ids_out,
                   vcpu_ids_out, vms_destroyed, id_op, NotInst>>

\* start_vm: a log line, Ok(()).
Inst_start_vm(vm_id) ==
    /\ inst_op' = [name |-> "start_vm", vm_id |-> vm_id, vcpu_id |-> -1]
    /\ inst_result' = "Ok"
    /\ UNCHANGED <<inst_mode, inst_config, inst_vms, inst_live, inst_vcpus, id_vars, NotInst>>

\* stop_vm: a log line, Ok(()).
Inst_stop_vm(vm_id) ==
    /\ inst_op' = [name |-> "stop_vm", vm_id |-> vm_id, vcpu_id |-> -1]
    /\ inst_result' = "Ok"
    /\ UNCHANGED <<inst_mode, inst_config, inst_vms, inst_live, inst_vcpus, id_vars, NotInst>>

\* A pause_vm that every implementation answers with Ok(()).
Inst_pause_vm_ok(vm_id) ==
    /\ inst_op' = [name |-> "pause_vm", vm_id |-> vm_id, vcpu_id |-> -1]
    /\ inst_result' = "Ok"
    /\ UNCHANGED <<inst_mode, inst_config, inst_vms, inst_live, inst_vcpus, id_vars, NotInst>>

\* pause_vm: Err(NotSupported) on the HVT tender, Ok(()) on the others.
Inst_pause_vm(vm_id) ==
    /\ inst_op' = [name |-> "pause_vm", vm_id |-> vm_id, vcpu_id |-> -1]
    /\ inst_result' = IF inst_mode = "Hvt" THEN "NotSupported" ELSE "Ok"
    /\ UNCHANGED <<inst_mode, inst_config, inst_vms, inst_live, inst_vcpus, id_vars, NotInst>>

\* resume_vm: Err(NotSupported) on the HVT tender, Ok(()) on the others.
Inst_resume_vm(vm_id) ==
    /\ inst_op' = [name |-> "resume_vm", vm_id |-> vm_id, vcpu_id |-> -1]
    /\ inst_result' = IF inst_mode = "Hvt" THEN "NotSupported" ELSE "Ok"
    /\ UNCHANGED <<inst_mode, inst_config, inst_vms, inst_live, inst_vcpus, id_vars, NotInst>>

\* run_vcpu: Ok(VcpuExit::Unknown), on the HVT tender Ok(Hypercall { nr: 0 }).
Inst_run_vcpu(vm_id, vcpu_id) ==
    /\ inst_op' = [name |-> "run_vcpu", vm_id |-> vm_id, vcpu_id |-> vcpu_id]
    /\ inst_result' = "Ok"
    /\ UNCHANGED <<inst_mode, inst_config, inst_vms, inst_live, inst_vcpus, id_vars, NotInst>>

\* get_vcpu_regs: Ok(VcpuRegs::default()).
Inst_get_vcpu_regs(vm_id, vcpu_id) ==
    /\ inst_op' = [name |-> "get_vcpu_regs", vm_id |-> vm_id, vcpu_id |-> vcpu_id]
    /\ inst_result' = "Ok"
    /\ UNCHANGED <<inst_mode, inst_config, inst_vms, inst_live, inst_vcpus, id_vars, NotInst>>

\* set_vcpu_regs: Ok(()).
Inst_set_vcpu_regs(vm_id, vcpu_id, r) ==
    /\ inst_op' = [name |-> "set_vcpu_regs", vm_id |-> vm_id, vcpu_id |-> vcpu_id]
    /\ inst_result' = "Ok"
    /\ UNCHANGED <<inst_mode, inst_config, inst_vms, inst_live, inst_vcpus, id_vars, NotInst>>

\* map_memory: a log line, Ok(()).
Inst_map_memory(vm_id, region) ==
    /\ inst_op' = [name |-> "map_memory", vm_id |-> vm_id, vcpu_id |-> -1]
    /\ inst_result' = "Ok"
    /\ UNCHANGED <<inst_mode, inst_config, inst_vms, inst_live, inst_vcpus, id_vars, NotInst>>

\* unmap_memory: a log line, Ok(()).
Inst_unmap_memory(vm_id, gpa, size) ==
    /\ inst_op' = [name |-> "unmap_memory", vm_id |-> vm_id, vcpu_id |-> -1]
    /\ inst_result' = "Ok"
    /\ UNCHANGED <<inst_mode, inst_config, inst_vms, inst_live, inst_vcpus, id_vars, NotInst>>

\* inject_interrupt: Err(NotSupported) on the HVT tender, Ok(()) on the others.
Inst_inject_interrupt(vm_id, vcpu_id, vector) ==
    /\ inst_op' = [name |-> "inject_interrupt", vm_id |-> vm_id, vcpu_id |-> vcpu_id]
    /\ inst_result' = IF inst_mode = "Hvt" THEN "NotSupported" ELSE "Ok"
    /\ UNCHANGED <<inst_mode, inst_config, inst_vms, inst_live, inst_vcpus, id_vars, NotInst>>

InstCreateVm == \E config \in {inst_config} : Inst_create_vm(config)

InstDestroyVm == \E vm_id \in InstVmIds : Inst_destroy_vm(vm_id)

InstCreateVcpu == \E vm_id \in InstVmIds : Inst_create_vcpu(vm_id)

InstStartVm == \E vm_id \in InstVmIds : Inst_start_vm(vm_id)

InstStopVm == \E vm_id \in InstVmIds : Inst_stop_vm(vm_id)

InstPauseVm == \E vm_id \in InstVmIds : Inst_pause_vm(vm_id)

InstResumeVm == \E vm_id \in InstVmIds : Inst_resume_vm(vm_id)

InstRunVcpu == \E vm_id \in InstVmIds, vcpu_id \in InstVcpuIds : Inst_run_vcpu(vm_id, vcpu_id)

InstGetVcpuRegs ==
    \E vm_id \in InstVmIds, vcpu_id \in InstVcpuIds : Inst_get_vcpu_regs(vm_id, vcpu_id)

InstSetVcpuRegs ==
    \E vm_id \in InstVmIds, vcpu_id \in InstVcpuIds, r \in VcpuRegs :
        Inst_set_vcpu_regs(vm_id, vcpu_id, r)

InstMapMemory == \E vm_id \in InstVmIds, region \in MemoryRegion : Inst_map_memory(vm_id, region)

InstUnmapMemory ==
    \E vm_id \in InstVmIds, gpa \in Addrs, size \in Sizes : Inst_unmap_memory(vm_id, gpa, size)

InstInjectInterrupt ==
    \E vm_id \in InstVmIds, vcpu_id \in InstVcpuIds, vector \in Vectors :
        Inst_inject_interrupt(vm_id, vcpu_id, vector)

InstNext ==
    \/ InstCreateVm
    \/ InstDestroyVm
    \/ InstCreateVcpu
    \/ InstStartVm
    \/ InstStopVm
    \/ InstPauseVm
    \/ InstResumeVm
    \/ InstRunVcpu
    \/ InstGetVcpuRegs
    \/ InstSetVcpuRegs
    \/ InstMapMemory
    \/ InstUnmapMemory
    \/ InstInjectInterrupt

\* The counters are at 0 and no other user of them is under test.
InstInit ==
    Inst_init /\ VmAbsent /\ VcpuAbsent /\ LifeAbsent /\ InitAbsent /\ IdsAbsent
    /\ MapperAbsent /\ EcbAbsent /\ ModeNameAbsent

SpecMode == InstInit /\ [][InstNext]_vars

\* ================================================================ mode.rs
\* Longest string the model builds from Chars.
MaxStrLen == 3

\* enum HypervisorMode
HypervisorMode == {"Type1", "VirtIO", "Hvt"}

\* Option<HypervisorMode>
None == [some |-> FALSE, mode |-> "none"]
Some(m) == [some |-> TRUE, mode |-> m]

\* A &str is written as the sequence of its characters.
\* HypervisorMode::name
name(m) ==
    CASE m = "Type1" -> <<"t", "y", "p", "e", "1">>
      [] m = "VirtIO" -> <<"v", "i", "r", "t", "i", "o">>
      [] m = "Hvt" -> <<"h", "v", "t">>

\* char::to_ascii_lowercase on the characters the model uses.
to_lower(c) ==
    CASE c = "H" -> "h"
      [] c = "V" -> "v"
      [] c = "T" -> "t"
      [] OTHER -> c

\* A from_str that compares without regard to case.
from_str_ignore_case(s) ==
    LET l == [i \in 1 .. Len(s) |-> to_lower(s[i])]
    IN  IF l = <<"t", "y", "p", "e", "1">> THEN Some("Type1")
        ELSE IF l = <<"v", "i", "r", "t", "i", "o">> THEN Some("VirtIO")
        ELSE IF l = <<"h", "v", "t">> THEN Some("Hvt")
        ELSE None

\* HypervisorMode::from_str: `match s` compares the whole string, byte by
\* byte, with each literal in turn.
from_str(s) ==
    IF s = <<"t", "y", "p", "e", "1">> THEN Some("Type1")
    ELSE IF s = <<"v", "i", "r", "t", "i", "o">> THEN Some("VirtIO")
    ELSE IF s = <<"h", "v", "t">> THEN Some("Hvt")
    ELSE None

\* The characters of the strings a caller passes: letters of "hvt" in both
\* cases and the blank.
Chars == {"h", "v", "t", "H", " "}

\* Longer strings a caller passes: the other two names, and names in another
\* case, with a blank before or after, cut short or extended.
LongInputs ==
    { <<"t", "y", "p", "e", "1">>, <<"v", "i", "r", "t", "i", "o">>,
      <<"T", "y", "p", "e", "1">>, <<"T", "Y", "P", "E", "1">>,
      <<"V", "i", "r", "t", "I", "O">>, <<"v", "i", "r", "t", "I", "O">>,
      <<" ", "t", "y", "p", "e", "1">>, <<"t", "y", "p", "e", "1", " ">>,
      <<"v", "i", "r", "t", "i", "o", " ">>, <<"t", "y", "p", "e">>,
      <<"t", "y", "p", "e", "1", "1">>, <<"t", "y", "p", "e", "2">>,
      <<"h", "v", "t", "h", "v", "t">> }

StrInputs == UNION {[1 .. n -> Chars] : n \in 0 .. MaxStrLen} \cup LongInputs

\* Start: the empty string from a caller, not parsed.
ModeName_start ==
    /\ mode_str = <<>>
    /\ mode_src = "caller"
    /\ mode_parsed = NotCalled

\* A caller comes with a string.
Caller_string(s) ==
    /\ mode_str' = s
    /\ mode_src' = "caller"
    /\ mode_parsed' = NotCalled
    /\ UNCHANGED NotModeName

\* m.name()
Mode_name(m) ==
    /\ mode_str' = name(m)
    /\ mode_src' = m
    /\ mode_parsed' = NotCalled
    /\ UNCHANGED NotModeName

\* HypervisorMode::from_str(s) on the string at hand.
Mode_from_str ==
    /\ mode_parsed = NotCalled
    /\ mode_parsed' = from_str(mode_str)
    /\ UNCHANGED <<mode_str, mode_src, NotModeName>>

CallerString == \E s \in StrInputs : Caller_string(s)

ModeName == \E m \in HypervisorMode : Mode_name(m)

ModeNameNext == CallerString \/ ModeName \/ Mode_from_str

ModeNameInit ==
    ModeName_start /\ VmAbsent /\ VcpuAbsent /\ LifeAbsent /\ InitAbsent /\ IdsAbsent
    /\ MapperAbsent /\ EcbAbsent /\ InstAbsent

SpecModeName == ModeNameInit /\ [][ModeNameNext]_vars


\* ------------------------------------------------------------ Vm claims
\* The addresses a region covers, as the guest-physical interval [gpa, gpa+size).
Covered(r) == {x \in 0 .. (2 * AddrLimit) : r.gpa <= x /\ x < r.gpa + r.size}

\* The overlap test as the claim writes it, over the integers.
ClaimOverlap(a, b) == (a.gpa < b.gpa + b.size) /\ (b.gpa < a.gpa + a.size)

WithoutIndex(list, i) == SubSeq(list, 1, i - 1) \o SubSeq(list, i + 1, Len(list))

\* C1: map_memory(b) returns Err(InvalidMemoryRegion) whenever some recorded
\* region a has a.gpa < b.gpa+b.size and b.gpa < a.gpa+a.size, and otherwise
\* returns Ok and appends b to the region list.
C1_MapRejectsExactlyOverlaps ==
    [][\A b \in MemoryRegion :
          Vm_map_memory(b) =>
            IF \E i \in 1 .. Len(memory_regions) : ClaimOverlap(memory_regions[i], b)
            THEN vm_result' = "InvalidMemoryRegion"
            ELSE vm_result' = "Ok" /\ memory_regions' = Append(memory_regions, b)
      ]_vars

\* C2: after any sequence of map_memory / unmap_memory calls the recorded
\* regions are pairwise non-overlapping as intervals [gpa, gpa+size).
C2_RegionsPairwiseDisjoint ==
    \A i, j \in 1 .. Len(memory_regions) :
        i # j => Covered(memory_regions[i]) \cap Covered(memory_regions[j]) = {}

\* C3: a map_memory call rejected with InvalidMemoryRegion leaves the region
\* list and the backend as they were and never calls the backend; mapping
\* {gpa 0, size one page} a second time with another hpa is such a call.
C3_RejectedMapChangesNothing ==
    [][\A b \in MemoryRegion :
          Vm_map_memory(b) =>
            /\ vm_result' = "InvalidMemoryRegion" =>
                 /\ memory_regions' = memory_regions
                 /\ arch_data' = arch_data
                 /\ \A k \in 1 .. Len(vm_log') : vm_log'[k] # "arch_map"
            /\ ( /\ Len(memory_regions) = 1
                 /\ memory_regions[1].gpa = 0 /\ memory_regions[1].size = 1
                 /\ b.gpa = 0 /\ b.size = 1 /\ b.hpa # memory_regions[1].hpa )
               => /\ vm_result' = "InvalidMemoryRegion"
                  /\ Len(memory_regions') = 1
                  /\ memory_regions'[1].hpa = memory_regions[1].hpa
      ]_vars

C3_Witness ==
    /\ vm_op = "map_memory"
    /\ vm_result = "InvalidMemoryRegion"
    /\ Len(memory_regions) = 1
    /\ memory_regions[1].gpa = 0
    /\ memory_regions[1].size = 1

C5_BackendBeforeRegionList ==
    \A k \in 1 .. Len(vm_log) :
        vm_log[k] \in {"push", "remove"} =>
            \E j \in 1 .. (k - 1) : vm_log[j] \in {"arch_map", "arch_unmap"}

\* C6: the region list and the translation structure agree: every page of a
\* recorded region translates to the host page at the same offset from hpa,
\* and a page no recorded region covers does not translate.
C6_RegionsAgreeWithTranslation ==
    \A g \in Addrs :
        LET owners == {i \in 1 .. Len(memory_regions) : g \in Covered(memory_regions[i])}
        IN  IF owners = {}
            THEN ~NestedTranslation(arch_data, g).mapped
            ELSE /\ NestedTranslation(arch_data, g).mapped
                 /\ \E i \in owners :
                        NestedTranslation(arch_data, g).hpa
                            = memory_regions[i].hpa + (g - memory_regions[i].gpa)

\* C7: every recorded region has size > 0.
C7_RecordedSizesPositive ==
    \A i \in 1 .. Len(memory_regions) : memory_regions[i].size > 0

\* C36: regions_overlap(a, b) is true exactly when the intervals
\* [a.gpa, a.gpa+a.size) and [b.gpa, b.gpa+b.size) intersect, also when an end
\* address reaches or passes the end of the address word: the end is computed
\* without wrapping (and without stopping the program), and the result is the
\* same for (a, b) and (b, a).  Checked on every pair map_memory compares.
C36_OverlapExactUpToWordEnd ==
    [][\A b \in MemoryRegion :
          Vm_map_memory(b) =>
            /\ vm_result' # "Panic"
            /\ \A i \in 1 .. Len(memory_regions) :
                  /\ regions_overlap(memory_regions[i], b) = ClaimOverlap(memory_regions[i], b)
                  /\ regions_overlap(b, memory_regions[i]) = regions_overlap(memory_regions[i], b)
      ]_vars

\* ---------------------------------------------------------- Vcpu claims
\* C8: run() on a VCPU that is not Stopped returns Err(ArchError) without
\* entering the guest; run() on a Stopped VCPU goes on to the guest and, its
\* backend calls having succeeded, returns Ok(exit_reason) in state Exited.
C8_RunOnlyFromStopped ==
    [][ /\ (Vcpu_run /\ vcpu_state # "Stopped") =>
              /\ vcpu_result' = ArchError(0)
              /\ vcpu_pc' = "idle"
              /\ vcpu_log' = <<>>
              /\ vcpu_state' = vcpu_state
        /\ (Vcpu_run /\ vcpu_state = "Stopped") => vcpu_pc' = "set_regs"
        /\ (vcpu_op = "run" /\ vcpu_pc # "idle" /\ vcpu_pc' = "idle") =>
              /\ vcpu_result' = Ok(exit_reason)
              /\ vcpu_state' = "Exited"
      ]_vars

C8_Witness ==
    /\ vcpu_op = "run"
    /\ vcpu_pc = "idle"
    /\ vcpu_result = ArchError(0)
    /\ vcpu_state = "Waiting"

\* C9: resume() on a VCPU that is not Exited returns Err(ArchError) without
\* entering the guest; on an Exited VCPU it enters the guest once and returns
\* in state Exited again, where resume() is accepted again and run() is
\* rejected.
C9_ResumeOnlyFromExited ==
    [][ /\ (Vcpu_resume /\ vcpu_state # "Exited") =>
              /\ vcpu_result' = ArchError(1)
              /\ vcpu_pc' = "idle"
              /\ vcpu_log' = <<>>
              /\ vcpu_state' = vcpu_state
        /\ (Vcpu_resume /\ vcpu_state = "Exited") =>
              /\ vcpu_pc' = "set_regs"
              /\ vcpu_state' = "Running"
        /\ (vcpu_op = "resume" /\ vcpu_pc # "idle" /\ vcpu_pc' = "idle") =>
              /\ vcpu_result'.kind = "Ok"
              /\ vcpu_state' = "Exited"
              /\ Cardinality({k \in 1 .. Len(vcpu_log') : vcpu_log'[k] = "enter"}) = 1
        /\ (Vcpu_run /\ vcpu_state = "Exited") => vcpu_result' = ArchError(0)
      ]_vars

C9_Witness ==
    /\ vcpu_op = "resume"
    /\ vcpu_pc = "idle"
    /\ vcpu_result.kind = "Ok"
    /\ vcpu_state = "Exited"

\* The steps of a successful run(), in the order of the claim.
RunSteps == <<"set_regs", "enter", "get_regs", "last_exit", "Exited">>

StepsDone(pc) ==
    CASE pc = "set_regs" -> 0
      [] pc = "enter" -> 1
      [] pc = "get_regs" -> 2
      [] pc = "record" -> 3
      [] pc = "set_exited" -> 4
      [] OTHER -> 5

\* C10: a successful run() performs set_regs, guest entry, get_regs, the
\* recording of last_exit and the change to Exited in this order, each once;
\* on return last_exit is the returned exit reason and regs is the snapshot
\* that get_regs returned.
C10_RunStepOrder ==
    /\ (vcpu_op = "run" /\ vcpu_pc # "idle") =>
          vcpu_log = SubSeq(RunSteps, 1, StepsDone(vcpu_pc))
    /\ (vcpu_op = "run" /\ vcpu_pc = "idle" /\ vcpu_result.kind = "Ok") =>
          /\ vcpu_log = RunSteps
          /\ last_exit = vcpu_result.exit
          /\ regs = ArchVcpuData_get_regs(vcpu_arch_data).regs
          /\ vcpu_state = "Exited"

C10_Witness ==
    /\ vcpu_op = "run"
    /\ vcpu_pc = "idle"
    /\ vcpu_result = Ok("Unknown")
    /\ vcpu_log = RunSteps

\* C11: register state round-trips through the backend: the snapshot written
\* with set_regs before run() / resume() is the one read back after the guest
\* (whose dispatch changes no register) has exited, so the read-back step
\* leaves regs as it was.
C11_RegsRoundTrip ==
    [][Vcpu_sync_from_arch => regs' = regs]_vars

\* C31: a thread that loads Vcpu::state while the owning thread is inside
\* run() or resume() sees Stopped, Running or Exited only, in the order
\* pre-state, Running, Exited: the state is Running from the first step of the
\* dispatch to its last, and the step that stores Exited comes after the
\* register snapshot and last_exit of that dispatch have been written.
C31_InspectorSeesOrderedStates ==
    [][ /\ vcpu_pc # "idle" => vcpu_state = "Running"
        /\ (vcpu_pc = "idle" /\ vcpu_pc' # "idle") =>
              /\ vcpu_state = (IF vcpu_op' = "run" THEN "Stopped" ELSE "Exited")
              /\ vcpu_state' = "Running"
        /\ (vcpu_pc # "idle" /\ vcpu_state' # vcpu_state) =>
              /\ vcpu_state' = "Exited"
              /\ vcpu_pc' = "idle"
              /\ SubSeq(vcpu_log, 1, 4) = SubSeq(RunSteps, 1, 4)
              /\ last_exit' = exit_reason /\ last_exit' = vcpu_result'.exit
              /\ regs' = ArchVcpuData_get_regs(vcpu_arch_data).regs
        /\ (vcpu_pc # "idle" \/ vcpu_pc' # "idle") =>
              vcpu_state' \in {"Stopped", "Running", "Exited"}
      ]_vars

\* The owning thread stands before set_state(Exited) in a resume(): last_exit
\* and regs are written and a load of the state still gives Running.
C31_Witness ==
    /\ vcpu_op = "resume"
    /\ vcpu_pc = "set_exited"
    /\ vcpu_state = "Running"
    /\ last_exit = exit_reason
    /\ vcpu_log = SubSeq(RunSteps, 1, 4)

\* C32: stop() returns Ok and stores Stopped from every state, and changes
\* neither regs() nor last_exit(); after stop(), run() is accepted and
\* resume() is rejected.
C32_StopResetsStateOnly ==
    [][ /\ Vcpu_stop =>
              /\ vcpu_result' = OkUnit
              /\ vcpu_state' = "Stopped"
              /\ UNCHANGED <<regs, last_exit, vcpu_arch_data>>
        /\ (vcpu_op = "stop" /\ Vcpu_run) =>
              vcpu_pc' = "set_regs" /\ vcpu_state' = "Running"
        /\ (vcpu_op = "stop" /\ Vcpu_resume) =>
              vcpu_result' = ArchError(1) /\ vcpu_state' = "Stopped"
        /\ (vcpu_pc = "idle" /\ vcpu_op' = "stop") => vcpu_state' = "Stopped"
      ]_vars

\* stop() has been called on a VCPU whose run() had returned and whose caller
\* had then stored a register snapshot: the snapshot and the log are kept.
C32_Witness ==
    /\ vcpu_op = "stop"
    /\ vcpu_state = "Stopped"
    /\ vcpu_result = OkUnit
    /\ vcpu_log = RunSteps
    /\ regs = MaxReg
    /\ last_exit = "Unknown"

\* C33: a run() or resume() that is rejected for its state precondition
\* changes neither the state nor regs() nor last_exit(), does not call the
\* backend, and returns ArchError(0) for run and ArchError(1) for resume.
C33_RejectedCallChangesNothing ==
    [][ /\ (vcpu_pc = "idle" /\ vcpu_op' \in {"run", "resume"} /\ vcpu_pc' = "idle") =>
              /\ vcpu_result' = ArchError(IF vcpu_op' = "run" THEN 0 ELSE 1)
              /\ vcpu_state # (IF vcpu_op' = "run" THEN "Stopped" ELSE "Exited")
              /\ UNCHANGED <<vcpu_state, regs, last_exit, vcpu_arch_data>>
              /\ vcpu_log' = <<>>
        /\ ArchError(0) # ArchError(1)
      ]_vars

\* resume() was rejected on a Running VCPU that holds a register snapshot.
C33_Witness ==
    /\ vcpu_op = "resume"
    /\ vcpu_pc = "idle"
    /\ vcpu_result = ArchError(1)
    /\ vcpu_state = "Running"
    /\ regs = MaxReg

\* ----------------------------------------------------- Vm lifecycle claims
\* C12: with config.num_vcpus = n the first n add_vcpu calls succeed and every
\* later one fails with MaxVcpusReached leaving the id list as it was; the
\* list never grows beyond n.
C12_VcpuCountCapped ==
    [][\A id \in VcpuIds :
          Vm_add_vcpu(id) =>
            /\ IF Len(vcpu_ids) < num_vcpus
               THEN life_result' = "Ok" /\ vcpu_ids' = Append(vcpu_ids, id)
               ELSE life_result' = "MaxVcpusReached" /\ vcpu_ids' = vcpu_ids
            /\ Len(vcpu_ids') <= num_vcpus'
            /\ num_vcpus = 0 => life_result' = "MaxVcpusReached"
      ]_vars

C12_Witness ==
    /\ life_op = "add_vcpu"
    /\ life_result = "MaxVcpusReached"
    /\ num_vcpus = 2
    /\ Len(vcpu_ids) = 2

\* C13: the Vm state becomes Running only from Stopped or Paused, becomes
\* Paused only from Running, and never leaves Destroying; a Vm starts in
\* Creating.
C13_LegalTransitions ==
    [][ /\ (vm_state' = "Running" /\ vm_state # "Running") =>
              vm_state \in {"Stopped", "Paused"}
        /\ (vm_state' = "Paused" /\ vm_state # "Paused") => vm_state = "Running"
        /\ vm_state = "Destroying" => vm_state' = "Destroying"
      ]_vars

\* ------------------------------------------------------------ init claims
\* C14: once an init() has returned Ok every later init() returns
\* AlreadyInitialized, and under any interleaving at most one call gets past
\* the guard: while one caller is past it, and after one has been, every
\* other call returns AlreadyInitialized.
C14_SingleInitialization ==
    [][ /\ Cardinality({t \in Callers : init_pc'[t] # "idle"}) <= 1
        /\ \A t \in Callers :
              /\ (init_swap(t) /\ (init_ok_seen \/ \E u \in Callers : init_pc[u] # "idle"))
                    => /\ init_result'[t] = "AlreadyInitialized"
                       /\ init_pc'[t] = "idle"
              /\ (init_pc[t] # "idle" /\ init_result'[t] = "Ok") => ~init_ok_seen
      ]_vars

C14_Witness ==
    /\ init_result[1] = "Ok"
    /\ init_result[2] = "AlreadyInitialized"
    /\ \A t \in Callers : init_pc[t] = "idle"

\* C15: when init() fails because the hardware setup fails (detection error,
\* no hardware virtualization, backend initialisation error) the flag is
\* cleared again, so that a later init() is attempted afresh.
C15_FailedInitClearsFlag ==
    ( /\ \A t \in Callers : init_pc[t] = "idle"
      /\ ~init_ok_seen
      /\ \E t \in Callers :
            init_result[t] \in {"NotSupported", "OutOfMemory", "InitializationFailed"} )
    => ~HYPERVISOR_INITIALIZED

\* C39: is_initialized() is true only if some init() has returned Ok: in
\* every state, also while an init() is in progress and after an init() has
\* returned an error, a set flag means that capability detection and backend
\* initialisation have completed successfully.
C39_FlagMeansInitialized ==
    HYPERVISOR_INITIALIZED => init_ok_seen

\* ------------------------------------------------------------- id claims
\* C16: allocate_vm_id and allocate_vcpu_id never return a value twice:
\* whoever calls, the values returned are 0, 1, 2, ... in this order without
\* a gap, and a destroy_vm makes no id available again.
C16_IdsNeverReused ==
    /\ \A i \in 1 .. Len(vm_ids_out) : vm_ids_out[i] = i - 1
    /\ \A i \in 1 .. Len(vcpu_ids_out) : vcpu_ids_out[i] = i - 1
    /\ \A m \in Modes : \A i, j \in 1 .. Len(vms[m]) : i # j => vms[m][i] # vms[m][j]
    /\ \A m, n \in Modes : \A i \in 1 .. Len(vms[m]), j \in 1 .. Len(vms[n]) :
          m # n => vms[m][i] # vms[n][j]
    /\ \A d \in vms_destroyed : \A m \in Modes : \A i \in 1 .. Len(vms[m]) : vms[m][i] # d

C16_Witness ==
    /\ id_op = "create_vm"
    /\ vms_destroyed # {}
    /\ Len(vm_ids_out) = 3
    /\ Len(vms["Type1"]) = 1
    /\ Len(vms["VirtIO"]) = 1
    /\ Len(vcpu_ids_out) = 2

\* ---------------------------------------------------------- mapper claims
\* The tables an intermediate walk reads: the root, the tables its present
\* entries point to, and the tables those point to.
TablesAtLevel4 == {pml4_addr}
TablesAtLevel3 ==
    {address(tables[t][i]) : <<t, i>> \in
        {<<t, i>> \in TablesAtLevel4 \X (0 .. (TableSize - 1)) : is_present(backend, tables[t][i])}}
TablesAtLevel2 ==
    {address(tables[t][i]) : <<t, i>> \in
        {<<t, i>> \in TablesAtLevel3 \X (0 .. (TableSize - 1)) : is_present(backend, tables[t][i])}}
IntermediateTables == TablesAtLevel4 \cup TablesAtLevel3 \cup TablesAtLevel2

\* The intermediate levels on the path of a guest page that have no table yet.
missing_levels(be, tbls, pml4, gpn) ==
    LET e4 == tbls[pml4][index(gpn, 4)]
    IN  IF ~is_present(be, e4) THEN 3
        ELSE
    LET e3 == tbls[address(e4)][index(gpn, 3)]
    IN  IF ~is_present(be, e3) THEN 2
        ELSE
    LET e2 == tbls[address(e3)][index(gpn, 2)]
    IN  IF ~is_present(be, e2) THEN 1 ELSE 0

\* C17: translation round trip, for the EPT and the NPT mapper and every
\* flags value: after map(gpa, hpa, flags) has returned Ok the four-level walk
\* at gpa finds a present leaf with address hpa, and after unmap(gpa) the walk
\* reports "not mapped".
C17_TranslationRoundTrip ==
    /\ (mapper_op = "map" /\ mapper_result = "Ok") =>
          /\ translate(backend, tables, pml4_addr, mapper_args.gpn).mapped
          /\ translate(backend, tables, pml4_addr, mapper_args.gpn).hpa = mapper_args.hpa
    /\ mapper_op = "unmap" =>
          ~translate(backend, tables, pml4_addr, mapper_args.gpn).mapped

\* C18: unmap(gpa) of an address that was never mapped, or was unmapped
\* already, returns Ok, allocates and frees nothing and changes no entry of
\* any table; a second unmap(gpa) leaves the tables of the first.
C18_UnmapOfUnmappedIsNoOp ==
    [][ (mapper_op' = "unmap") =>
          /\ mapper_result' = "Ok"
          /\ unmap_tables(backend, tables', pml4_addr, mapper_args'.gpn).tables = tables'
          /\ mapper_args'.gpn \notin mapped_now =>
                /\ tables' = tables
                /\ free_frames' = free_frames
      ]_vars

\* C19: every present entry of the root, second and third level carries full
\* permission (EPT: read, write, execute; NPT: present, writable, user, with
\* no-execute clear) whatever flags the map calls were given; those flags are
\* in the leaf entry the map call wrote and nowhere else.
C19_IntermediateEntriesFullPermission ==
    /\ \A t \in IntermediateTables : \A i \in 0 .. (TableSize - 1) :
          is_present(backend, tables[t][i]) =>
             /\ tables[t][i].b0 /\ tables[t][i].b1 /\ tables[t][i].b2
             /\ ~tables[t][i].nx
    /\ (mapper_op = "map" /\ mapper_result = "Ok") =>
          LET pt == walk_to_pt(backend, tables, pml4_addr, mapper_args.gpn)
              leaf == tables[pt][index(mapper_args.gpn, 1)]
          IN  /\ pt # 0
              /\ leaf.b0 = mapper_args.flags.b0
              /\ leaf.b1 = mapper_args.flags.b1
              /\ leaf.b2 = mapper_args.flags.b2
              /\ leaf.nx = mapper_args.flags.nx

C19_Witness ==
    /\ mapper_op = "map"
    /\ mapper_result = "Ok"
    /\ mapper_args.flags = [b0 |-> FALSE, b1 |-> TRUE, b2 |-> FALSE, nx |-> FALSE]
    /\ mapper_allocs = 3

\* C20: when the frame allocator has no frame left during a map walk, map
\* returns Err(OutOfMemory); the tables it created before stay allocated and
\* linked on the path of gpa, no leaf is written and every guest page
\* translates as before; a later map of the same gpa allocates only the
\* levels still missing.
C20_FailedMapKeepsTables ==
    [][ (mapper_op' = "map") =>
          LET gpn == mapper_args'.gpn
              missing == missing_levels(backend, tables, pml4_addr, gpn)
          IN  /\ (mapper_result' = "OutOfMemory") = (free_frames < missing)
              /\ mapper_result' = "OutOfMemory" =>
                    /\ mapper_allocs' = free_frames
                    /\ Len(tables') = Len(tables) + free_frames
                    /\ missing_levels(backend, tables', pml4_addr, gpn)
                          = missing - free_frames
                    /\ \A g \in GuestPages :
                          translate(backend, tables', pml4_addr, g)
                             = translate(backend, tables, pml4_addr, g)
              /\ mapper_result' = "Ok" => mapper_allocs' = missing
      ]_vars

C20_Witness ==
    /\ mapper_op = "map"
    /\ mapper_result = "OutOfMemory"
    /\ mapper_allocs = 1
    /\ free_frames = 0
    /\ mapped_now # {}
    /\ \E g \in GuestPages : translate(backend, tables, pml4_addr, g).mapped

\* The frames the mapper holds: the root table and every table a map call
\* created.
frames_held(tbls) == Len(tbls)

\* C21: dropping the mapper returns every frame it allocated (the root and
\* every intermediate and leaf table) to the frame allocator, so that after
\* new(); map*; unmap*; drop the allocator has the frames it had before new().
C21_DropFreesEveryFrame ==
    [][ (mapper_op' = "drop") => free_frames' = free_frames + frames_held(tables) ]_vars

\* The leaf entry of a guest page whose leaf table exists.
leaf_entry(be, tbls, pml4, gpn) == tbls[walk_to_pt(be, tbls, pml4, gpn)][index(gpn, 1)]

\* C29: the root pointer accessor depends on the root table's address only
\* and is constant across map and unmap calls: the root address never changes
\* after new(); npt_cr3() is the root address alone (offset bits zero);
\* ept_pointer() is the root address combined with memory type 6 in bits 0-2
\* and the walk length 3 in one field above it, and nothing else.
C29_RootPointerConstant ==
    [][ /\ pml4_addr' = pml4_addr
        /\ root_pointer(backend', pml4_addr') = root_pointer(backend, pml4_addr)
        /\ LET value == root_pointer(backend', pml4_addr')
               control == value % 2 ^ PageBits
           IN  /\ address_bits(value) = frame_base(pml4_addr')
               /\ backend' = "Npt" => control = 0
               /\ backend' = "Ept" =>
                     /\ control % 8 = 6
                     /\ \E shift \in 3 .. 10 : control = 6 + 3 * 2 ^ shift
      ]_vars

\* An EPT mapper that holds tables after map and unmap calls, the last one an
\* unmap, still hands out the pointer of its root.
C29_Witness ==
    /\ backend = "Ept"
    /\ mapper_op = "unmap"
    /\ Len(tables) > 1
    /\ mapped_now # {}
    /\ ept_pointer(pml4_addr) = frame_base(1) + 30

\* C30: a map of a guest page that is already mapped returns Ok, allocates no
\* frame and gives none back, and leaves a leaf entry that encodes exactly the
\* new host address and the new flags: no bit of the old address or flags
\* remains.
C30_RemapOverwritesLeaf ==
    [][ (mapper_op' = "map" /\ mapper_args'.gpn \in mapped_now) =>
            /\ mapper_result' = "Ok"
            /\ mapper_allocs' = 0
            /\ Len(tables') = Len(tables)
            /\ free_frames' = free_frames
            /\ leaf_entry(backend, tables', pml4_addr, mapper_args'.gpn)
                  = [b0 |-> mapper_args'.flags.b0, b1 |-> mapper_args'.flags.b1,
                     b2 |-> mapper_args'.flags.b2, nx |-> mapper_args'.flags.nx,
                     mt |-> IF backend = "Ept" THEN 6 ELSE 0,
                     addr |-> mapper_args'.hpa]
      ]_vars

\* One page is mapped, to host frame 0 with write permission only, by a map
\* that found all three tables of its path in place.
C30_Witness ==
    /\ mapper_op = "map"
    /\ mapper_result = "Ok"
    /\ mapper_allocs = 0
    /\ mapped_now = {mapper_args.gpn}
    /\ Len(tables) = 4
    /\ mapper_args.hpa = 0
    /\ mapper_args.flags = [b0 |-> FALSE, b1 |-> TRUE, b2 |-> FALSE, nx |-> FALSE]
    /\ leaf_entry(backend, tables, pml4_addr, mapper_args.gpn).addr = 0

\* C37: map(gpa, ..) and unmap(gpa) affect the page of gpa only: every guest
\* page other than that of gpa, pages that differ from it only in bits 48-63
\* included, translates after the call as it did before.
C37_OtherPagesUntouched ==
    [][ (mapper_op' \in {"map", "unmap"}) =>
          \A g \in GuestPages :
              g # mapper_args'.gpn =>
                 translate(backend, tables', pml4_addr, g)
                    = translate(backend, tables, pml4_addr, g)
      ]_vars

\* C38: the table frames a mapper holds never become fewer or other: unmap
\* takes and returns no frame, map takes at most three, one per missing level
\* of its path and none when the three tables exist; a table taken by the
\* call was all-zero when linked, so after the call it holds the one entry the
\* call wrote on the path of its guest page and nothing else.
C38_FrameAccounting ==
    [][ (mapper_op' \in {"map", "unmap"}) =>
          LET gpn == mapper_args'.gpn
              missing == missing_levels(backend, tables, pml4_addr, gpn)
              fresh == (Len(tables) + 1) .. Len(tables')
          IN  /\ Len(tables') >= Len(tables)
              /\ mapper_allocs' = Len(tables') - Len(tables)
              /\ free_frames' = free_frames - mapper_allocs'
              /\ mapper_op' = "unmap" => mapper_allocs' = 0
              /\ mapper_op' = "map" =>
                    /\ mapper_allocs' <= 3
                    /\ mapper_allocs' <= missing
                    /\ missing = 0 => mapper_allocs' = 0
              /\ \A f \in fresh :
                    LET written == {i \in 0 .. (TableSize - 1) : tables'[f][i] # EmptyEntry}
                    IN  /\ Cardinality(written) <= 1
                        /\ written \subseteq {index(gpn, level) : level \in 1 .. 3}
      ]_vars

\* A second page of a leaf table that was in place has been mapped: both
\* pages are mapped, the mapper holds its four frames and the call took none.
C38_Witness ==
    /\ mapper_op = "map"
    /\ mapper_result = "Ok"
    /\ mapper_args.gpn = 1
    /\ mapped_now = {0, 1}
    /\ Len(tables) = 4
    /\ mapper_allocs = 0

\* C40: the value of ept_pointer() has the layout its documentation states:
\* bits 0-2 hold memory type 6, bit 3 is 0, bits 4-5 hold the walk length
\* minus one (3), bits 6-11 are 0, and the bits from 12 up hold the address
\* of the root table.
C40_EptPointerLayout ==
    backend = "Ept" =>
        LET value == ept_pointer(pml4_addr)
        IN  /\ value % 8 = 6
            /\ (value \div 8) % 2 = 0
            /\ (value \div 16) % 4 = 3
            /\ (value \div 64) % 64 = 0
            /\ address_bits(value) = frame_base(pml4_addr)

\* ------------------------------------------------- mode instance claims
UnsupportedOnHvt == {"pause_vm", "resume_vm", "inject_interrupt"}

\* C24: on an HVT instance pause_vm, resume_vm and inject_interrupt return
\* Err(NotSupported) for every vm_id, vcpu_id and vector and in every state of
\* the instance, and leave the instance and the id counters as they were; on
\* a Type1 or VirtIO instance the three calls do not return NotSupported.
C24_HvtUnsupportedOps ==
    [][ (inst_op'.name \in UnsupportedOnHvt) =>
          IF inst_mode = "Hvt"
          THEN /\ inst_result' = "NotSupported"
               /\ UNCHANGED <<inst_mode, inst_config, inst_vms, inst_live, inst_vcpus,
                              VM_COUNTER, VCPU_COUNTER>>
          ELSE inst_result' # "NotSupported"
      ]_vars

C24_Witness ==
    /\ inst_mode = "Hvt"
    /\ inst_op = [name |-> "pause_vm", vm_id |-> 0, vcpu_id |-> -1]
    /\ inst_result = "NotSupported"
    /\ inst_live = {0}
    /\ inst_vcpus[0] = 1

\* The calls that are addressed to a VM, and those addressed to a VCPU.
NeedLiveVm ==
    {"destroy_vm", "start_vm", "stop_vm", "create_vcpu", "run_vcpu", "map_memory",
     "unmap_memory"}
NeedKnownVcpu == {"run_vcpu", "get_vcpu_regs", "set_vcpu_regs"}

\* C25: destroy_vm, start_vm, stop_vm, create_vcpu, run_vcpu, map_memory and
\* unmap_memory with a VM id that is not a live VM of the instance (never
\* returned by its create_vm, or destroyed since) fail with InvalidVmId;
\* run_vcpu, get_vcpu_regs and set_vcpu_regs with a VCPU id that create_vcpu
\* never returned fail with InvalidVcpuId.
C25_UnknownIdsRejected ==
    [][ /\ (inst_op'.name \in NeedLiveVm /\ inst_op'.vm_id \notin inst_live) =>
               inst_result' = "InvalidVmId"
        /\ (inst_op'.name \in NeedKnownVcpu /\ inst_op'.vcpu_id >= VCPU_COUNTER) =>
               inst_result' \in {"InvalidVmId", "InvalidVcpuId"}
      ]_vars

\* C26: the live VMs of an instance never number more than
\* capabilities().max_vms, and the VCPUs created for one VM never number more
\* than the vcpu count of its configuration nor more than
\* capabilities().max_vcpus_per_vm (1 on the HVT tender); a call beyond fails
\* with MaxVmsReached or MaxVcpusReached.
C26_CapacityRespected ==
    /\ Cardinality(inst_live) <= capabilities(inst_mode).max_vms
    /\ \A v \in inst_live :
          /\ inst_vcpus[v] <= inst_config
          /\ inst_vcpus[v] <= capabilities(inst_mode).max_vcpus_per_vm

\* ------------------------------------------------------------- mode names
\* C23: from_str accepts exactly the strings "type1", "virtio" and "hvt", in
\* this case and with nothing before or after, and returns None for every
\* other string; from_str(m.name()) is Some(m) for every mode m.
C23_FromStrExactNames ==
    mode_parsed # NotCalled =>
        /\ mode_parsed = (IF mode_str = <<"t", "y", "p", "e", "1">> THEN Some("Type1")
                          ELSE IF mode_str = <<"v", "i", "r", "t", "i", "o">> THEN Some("VirtIO")
                          ELSE IF mode_str = <<"h", "v", "t">> THEN Some("Hvt")
                          ELSE None)
        /\ mode_src \in HypervisorMode => mode_parsed = Some(mode_src)
        /\ mode_parsed.some => Len(mode_str) \in {3, 5, 6}

C23_Witness ==
    /\ mode_str = <<"H", "v", "t">>
    /\ mode_src = "caller"
    /\ mode_parsed = None

\* ------------------------------------------------------ control block claims
\* C22: the frame of every VMCS handle and every VMCB handle is released
\* exactly once when the handle is dropped: a live handle's frame has not been
\* deallocated, a dropped handle's frame has been deallocated once and is
\* with the allocator or has been handed out again, and no frame is
\* deallocated twice.
C22_EcbFrameReleasedOnce ==
    \A h \in Handles :
        /\ ecb_deallocs[h] <= 1
        /\ ecb_handle[h] = "live" => ecb_deallocs[h] = 0 /\ ecb_frame[h] \notin ecb_free
        /\ ecb_handle[h] = "dropped" =>
              /\ ecb_deallocs[h] = 1
              /\ \/ ecb_frame[h] \in ecb_free
                 \/ \E g \in Handles : g # h /\ ecb_handle[g] = "live"
                                          /\ ecb_frame[g] = ecb_frame[h]

\* The control values a translation engine can hand out for the block: the
\* root pointer of any frame a root table can live in.
RootControlValues(tech) ==
    {root_pointer(IF tech = "Vmx" THEN "Ept" ELSE "Npt", f) : f \in 1 .. (MaxFrames + 1)}

\* The nested-table root field of the block and its 64-bit mode controls.
root_field(tech) == IF tech = "Vmx" THEN "EptPointer" ELSE "n_cr3"
has_bit9(value) == (value \div Bit9) % 2 = 1

\* C27: after an execution control block has been initialized successfully,
\* its nested-table root field (EPT pointer of the VMCS, N_CR3 of the VMCB)
\* holds the root control value of a translation engine, and on the VMCS the
\* exit and entry controls have the 64-bit host and guest mode bits (bit 9) set.
C27_InitializeBindsRoot ==
    (ecb_op.name = "initialize" /\ ecb_result.kind = "Ok") =>
        /\ ecb_content[ecb_op.h][root_field(ecb_tech)] \in RootControlValues(ecb_tech)
        /\ ecb_tech = "Vmx" =>
              /\ has_bit9(ecb_content[ecb_op.h]["VmExitControls"])
              /\ has_bit9(ecb_content[ecb_op.h]["VmEntryControls"])

\* C28: a VMCS field read or write whose instruction signals failure returns
\* Err(InvalidParameter) and no value, a VMCLEAR or VMPTRLD that signals
\* failure returns Err(InitializationFailed), and each of the four calls
\* issues its instruction exactly once, failed or not.
C28_VmcsFailuresSurface ==
    /\ ecb_op.name \in {"read", "write"} =>
          /\ ecb_log \in {<<[ins |-> "vmread", field |-> f]>> : f \in VmcsFields}
                       \cup {<<[ins |-> "vmwrite", field |-> f]>> : f \in VmcsFields}
          /\ ecb_log[1].ins = (IF ecb_op.name = "read" THEN "vmread" ELSE "vmwrite")
          /\ (current_vmcs = 0 \/ ecb_log[1].field = ecb_hw.bad_field) <=>
                 ecb_result = EcbResult("InvalidParameter", 0)
          /\ ecb_result.kind \in {"Ok", "InvalidParameter"}
    /\ ecb_op.name = "clear" =>
          /\ ecb_log = <<[ins |-> "vmclear", field |-> "none"]>>
          /\ ecb_result = IF ecb_hw.clear_fails THEN EcbResult("InitializationFailed", 0)
                          ELSE EcbResult("Ok", 0)
    /\ ecb_op.name = "load" =>
          /\ ecb_log = <<[ins |-> "vmptrld", field |-> "none"]>>
          /\ ecb_result = IF ecb_hw.load_fails THEN EcbResult("InitializationFailed", 0)
                          ELSE EcbResult("Ok", 0)

\* A read of a field the processor does not have, through a handle whose VMCS
\* is current, has returned InvalidParameter after one VMREAD.
C28_Witness ==
    /\ ecb_op.name = "read"
    /\ current_vmcs = ecb_op.h
    /\ ecb_hw.bad_field = "EptPointer"
    /\ ecb_log = <<[ins |-> "vmread", field |-> "EptPointer"]>>
    /\ ecb_result = EcbResult("InvalidParameter", 0)

\* The host-state fields and the control fields initialize writes.
HostStateFields ==
    {"HostCr0", "HostCr3", "HostCr4", "HostCsSelector", "HostSsSelector", "HostDsSelector",
     "HostEsSelector", "HostFsSelector", "HostGsSelector", "HostTrSelector", "HostFsBase",
     "HostGsBase", "HostTrBase", "HostGdtrBase", "HostIdtrBase"}
ControlFields ==
    {"PinBasedVmExecControl", "PrimaryProcBasedVmExecControl", "VmExitControls",
     "VmEntryControls"}

\* C35: VmcsHandle::initialize issues VMCLEAR first, VMPTRLD second and the
\* field writes after them, each field once and the host-state fields before
\* the control fields; it stops at the first instruction that fails and
\* returns that step's error, so the failed instruction is the last one
\* issued, and it returns Ok only after all of them.
C35_InitializeOrderedStopsAtFailure ==
    (ecb_op.name = "initialize" /\ ecb_tech = "Vmx") =>
        LET n == Len(ecb_log)
            failed(k) ==
                \/ k = 1 /\ ecb_hw.clear_fails
                \/ k = 2 /\ ecb_hw.load_fails
                \/ k > 2 /\ ecb_log[k].field = ecb_hw.bad_field
        IN  /\ n >= 1
            /\ \A k \in 1 .. n :
                  /\ ecb_log[k].ins = (IF k = 1 THEN "vmclear"
                                       ELSE IF k = 2 THEN "vmptrld" ELSE "vmwrite")
                  /\ k > 2 => ecb_log[k].field \in HostStateFields \cup ControlFields
                  /\ k < n => ~failed(k)
            /\ \A j, k \in 3 .. n :
                  /\ (j < k /\ ecb_log[j].field \in ControlFields) =>
                         ecb_log[k].field \in ControlFields
                  /\ j # k => ecb_log[j].field # ecb_log[k].field
            /\ IF failed(n)
               THEN ecb_result = EcbResult(IF n <= 2 THEN "InitializationFailed"
                                           ELSE "InvalidParameter", 0)
               ELSE /\ ecb_result = EcbResult("Ok", 0)
                    /\ {ecb_log[k].field : k \in 3 .. n} = HostStateFields \cup ControlFields

\* initialize met a processor that refuses the fourth field: it issued VMCLEAR,
\* VMPTRLD and four writes, the last of them the refused one.
C35_Witness ==
    /\ ecb_op.name = "initialize"
    /\ ecb_hw = [clear_fails |-> FALSE, load_fails |-> FALSE, bad_field |-> "HostCsSelector"]
    /\ Len(ecb_log) = 6
    /\ ecb_log[6] = [ins |-> "vmwrite", field |-> "HostCsSelector"]
    /\ ecb_result = EcbResult("InvalidParameter", 0)

====
